---------------------------- MODULE Spec2Model ----------------------------
(***************************************************************************)
(* A model of twisted.positioning.nmea: the NMEA 0183 line decoder         *)
(* (NMEAProtocol.lineReceived, _validateChecksum, _split) and the stateful *)
(* adapter (NMEAAdapter) that folds decoded sentences into its state and   *)
(* fires the positioning callbacks.                                        *)
(*                                                                         *)
(* Representation.                                                         *)
(*  - A character is a one-character string; a Python str is a sequence of *)
(*    characters.  Ord gives the ASCII code of a character.                *)
(*  - A Python dict is a function whose DOMAIN is the set of keys present. *)
(*  - An optional value (None or a value) is the empty set or a singleton. *)
(*  - A float is a fixed-point integer: value * Scale.                     *)
(*  - An exception that propagates out of a call is recorded by the name   *)
(*    of its class in `outcome`.                                           *)
(***************************************************************************)
EXTENDS Integers, Sequences, FiniteSets, TLC

VARIABLES
    state,            \* NMEAAdapter._state
    sentenceData,     \* NMEAAdapter._sentenceData (the scratch map)
    shared,           \* keys k whose _sentenceData[k] and _state[k] are one object
    sameBeacons,      \* the Satellite objects that two beacon sets both hold
    currentSentence,  \* NMEAAdapter.currentSentence: None or the last sentence
    rawLine,          \* the argument of the last lineReceived call
    op,               \* the last call: "init", "lineReceived" or "clear"
    outcome,          \* how the last call ended: "ok" or an exception class
    written,          \* scratch keys assigned during the last sentenceReceived
    calls,            \* receiver callbacks invoked during the last call
    fired,            \* callbacks invoked since the state was last empty
    wiped,            \* the state keys the last call removed
    log,              \* the calls of a recorded run so far, oldest first
    settings          \* the adapter's DATESTAMP_HANDLING (handling) and
                      \* INTELLIGENT_DATE_THRESHOLD (threshold)

vars == <<state, sentenceData, shared, sameBeacons, currentSentence, rawLine,
          op, outcome, written, calls, fired, wiped, log, settings>>

(***************************************************************************)
(* Characters                                                              *)
(***************************************************************************)
Digits == <<"0", "1", "2", "3", "4", "5", "6", "7", "8", "9">>
UpperHex == <<"A", "B", "C", "D", "E", "F">>
LowerHex == <<"a", "b", "c", "d", "e", "f">>

IndexIn(seq, c) == CHOOSE i \in 1..Len(seq) : seq[i] = c
InSeq(seq, c) == \E i \in 1..Len(seq) : seq[i] = c

Lower == <<"a", "b", "c", "d", "e", "f", "g", "h", "i", "j", "k", "l", "m",
           "n", "o", "p", "q", "r", "s", "t", "u", "v", "w", "x", "y", "z">>
Upper == <<"A", "B", "C", "D", "E", "F", "G", "H", "I", "J", "K", "L", "M",
           "N", "O", "P", "Q", "R", "S", "T", "U", "V", "W", "X", "Y", "Z">>

\* ord(c) for the ASCII characters NMEA lines are made of
Ord(c) ==
    IF InSeq(Digits, c) THEN 48 + IndexIn(Digits, c) - 1
    ELSE IF InSeq(Upper, c) THEN 65 + IndexIn(Upper, c) - 1
    ELSE IF InSeq(Lower, c) THEN 97 + IndexIn(Lower, c) - 1
    ELSE IF c = " " THEN 32
    ELSE IF c = "$" THEN 36
    ELSE IF c = "*" THEN 42
    ELSE IF c = "+" THEN 43
    ELSE IF c = "," THEN 44
    ELSE IF c = "-" THEN 45
    ELSE 46

IsDigit(c) == InSeq(Digits, c)
DigitValue(c) == IndexIn(Digits, c) - 1

IsHexDigit(c) == InSeq(Digits, c) \/ InSeq(UpperHex, c) \/ InSeq(LowerHex, c)
HexDigitValue(c) ==
    IF InSeq(Digits, c) THEN DigitValue(c)
    ELSE IF InSeq(UpperHex, c) THEN 9 + IndexIn(UpperHex, c)
    ELSE 9 + IndexIn(LowerHex, c)

IsSpace(c) == c = " "

\* str.upper() on one character
UpperChar(c) == IF InSeq(Lower, c) THEN Upper[IndexIn(Lower, c)] ELSE c

(***************************************************************************)
(* Python helpers                                                          *)
(***************************************************************************)
None == {}
Some(v) == {v}
The(opt) == CHOOSE v \in opt : TRUE

\* s[a:b] with 1-based inclusive bounds, empty when a > b
Slice(s, a, b) == IF a > b THEN <<>> ELSE SubSeq(s, a, b)

\* str.strip(): drop leading and trailing whitespace
RECURSIVE LStrip(_)
LStrip(s) == IF s # <<>> /\ IsSpace(Head(s)) THEN LStrip(Tail(s)) ELSE s
RECURSIVE RStrip(_)
RStrip(s) ==
    IF s # <<>> /\ IsSpace(s[Len(s)]) THEN RStrip(SubSeq(s, 1, Len(s) - 1)) ELSE s
Strip(s) == RStrip(LStrip(s))

\* str.split(sep): always at least one (possibly empty) token.  Token k lies
\* between the (k-1)-th and the k-th separator.
Split(s, sep) ==
    LET seps == {i \in 1..Len(s) : s[i] = sep}
        \* the position of the k-th separator; 0 and Len(s) + 1 bracket them
        At(k) == IF k = 0 THEN 0
                 ELSE IF k > Cardinality(seps) THEN Len(s) + 1
                 ELSE CHOOSE i \in seps : Cardinality({j \in seps : j < i}) = k - 1
    IN  [k \in 1..(Cardinality(seps) + 1) |-> Slice(s, At(k - 1) + 1, At(k) - 1)]

\* Bit k of n
Bit(n, k) == (n \div (2 ^ k)) % 2

\* operator.xor on character codes (below 256)
Xor(a, b) ==
    LET X(k) == (2 ^ k) * ((Bit(a, k) + Bit(b, k)) % 2) IN
    X(0) + X(1) + X(2) + X(3) + X(4) + X(5) + X(6) + X(7)

\* reduce(operator.xor, ...) over the characters s[a..b] of a non-empty
\* sequence.  xor is associative, so the fold is taken by halves to keep the
\* evaluation shallow: the value is that of ((c1 ^ c2) ^ c3) ^ ...
RECURSIVE XorOrdsBetween(_, _, _)
XorOrdsBetween(s, a, b) ==
    IF a = b THEN Ord(s[a])
    ELSE LET mid == (a + b) \div 2
         IN  Xor(XorOrdsBetween(s, a, mid), XorOrdsBetween(s, mid + 1, b))

XorOrds(s) == XorOrdsBetween(s, 1, Len(s))

\* int(s, 16) for a two-character s (sentence[-2:] of a sentence of three
\* characters or more): two hex digits, one hex digit after or before a
\* blank (int() skips surrounding whitespace), or one hex digit after a
\* sign; anything else is ValueError.
IntBase16(s) ==
    IF IsHexDigit(s[1]) /\ IsHexDigit(s[2])
        THEN Some(16 * HexDigitValue(s[1]) + HexDigitValue(s[2]))
    ELSE IF IsSpace(s[1]) /\ IsHexDigit(s[2]) THEN Some(HexDigitValue(s[2]))
    ELSE IF s[1] = "+" /\ IsHexDigit(s[2]) THEN Some(HexDigitValue(s[2]))
    ELSE IF s[1] = "-" /\ IsHexDigit(s[2]) THEN Some(-HexDigitValue(s[2]))
    ELSE IF IsHexDigit(s[1]) /\ IsSpace(s[2]) THEN Some(HexDigitValue(s[1]))
    ELSE None

(***************************************************************************)
(* The decoder: _validateChecksum, _split                                  *)
(***************************************************************************)
\* The exception _validateChecksum raises on `sentence`, or "ok".
_validateChecksum(sentence) ==
    LET n == Len(sentence) IN
    IF n < 3 THEN "IndexError"          \* sentence[-3]
    ELSE IF sentence[n - 2] # "*" THEN "ok"
    ELSE LET reference == IntBase16(Slice(sentence, n - 1, n))
             source == Slice(sentence, 2, n - 3)
         IN  IF reference = None THEN "ValueError"       \* int(..., 16)
             ELSE IF source = <<>> THEN "TypeError"      \* reduce() of empty
             ELSE IF XorOrds(source) # The(reference) THEN "InvalidChecksum"
             ELSE "ok"

\* _split: [exc |-> exception or "ok", tokens |-> the split sentence]
_split(sentence) ==
    LET n == Len(sentence) IN
    IF n < 3 THEN [exc |-> "IndexError", tokens |-> <<>>]
    ELSE IF sentence[n - 2] = "*"
        THEN [exc |-> "ok",
              tokens |-> Split(Slice(sentence, 2, n - 3), ",")]
    ELSE IF sentence[n] = "*"
        THEN [exc |-> "ok", tokens |-> Split(Slice(sentence, 2, n - 1), ",")]
    ELSE [exc |-> "InvalidSentence", tokens |-> <<>>]

(***************************************************************************)
(* The sentence schema table and NMEAProtocol.lineReceived                 *)
(***************************************************************************)
GPGGA == <<"G", "P", "G", "G", "A">>
GPRMC == <<"G", "P", "R", "M", "C">>
GPGSV == <<"G", "P", "G", "S", "V">>
GPGLL == <<"G", "P", "G", "L", "L">>
GPHDT == <<"G", "P", "H", "D", "T">>
GPTRF == <<"G", "P", "T", "R", "F">>
GPGSA == <<"G", "P", "G", "S", "A">>

SentenceTypes == {GPGGA, GPRMC, GPGSV, GPGLL, GPHDT, GPTRF, GPGSA}

\* NMEAProtocol.SENTENCE_CONTENTS[sentenceType], for a known type
SENTENCE_CONTENTS(sentenceType) ==
    IF sentenceType = GPGGA THEN
        << "timestamp", "latitudeFloat", "latitudeHemisphere",
           "longitudeFloat", "longitudeHemisphere", "fixQuality",
           "numberOfSatellitesSeen", "horizontalDilutionOfPrecision",
           "altitude", "altitudeUnits", "heightOfGeoidAboveWGS84",
           "heightOfGeoidAboveWGS84Units" >>
    ELSE IF sentenceType = GPRMC THEN
        << "timestamp", "dataMode", "latitudeFloat", "latitudeHemisphere",
           "longitudeFloat", "longitudeHemisphere", "speedInKnots",
           "trueHeading", "datestamp", "magneticVariation",
           "magneticVariationDirection" >>
    ELSE IF sentenceType = GPGSV THEN
        << "numberOfGSVSentences", "GSVSentenceIndex",
           "numberOfSatellitesSeen",
           "satellitePRN_0", "elevation_0", "azimuth_0", "signalToNoiseRatio_0",
           "satellitePRN_1", "elevation_1", "azimuth_1", "signalToNoiseRatio_1",
           "satellitePRN_2", "elevation_2", "azimuth_2", "signalToNoiseRatio_2",
           "satellitePRN_3", "elevation_3", "azimuth_3", "signalToNoiseRatio_3" >>
    ELSE IF sentenceType = GPGLL THEN
        << "latitudeFloat", "latitudeHemisphere", "longitudeFloat",
           "longitudeHemisphere", "timestamp", "dataMode" >>
    ELSE IF sentenceType = GPHDT THEN
        << "trueHeading" >>
    ELSE IF sentenceType = GPTRF THEN
        << "datestamp", "timestamp", "latitudeFloat", "latitudeHemisphere",
           "longitudeFloat", "longitudeHemisphere", "elevation",
           "numberOfIterations", "numberOfDopplerIntervals",
           "updateDistanceInNauticalMiles", "satellitePRN" >>
    ELSE
        << "dataMode", "fixType",
           "usedSatellitePRN_0", "usedSatellitePRN_1", "usedSatellitePRN_2",
           "usedSatellitePRN_3", "usedSatellitePRN_4", "usedSatellitePRN_5",
           "usedSatellitePRN_6", "usedSatellitePRN_7", "usedSatellitePRN_8",
           "usedSatellitePRN_9", "usedSatellitePRN_10", "usedSatellitePRN_11",
           "positionDilutionOfPrecision", "horizontalDilutionOfPrecision",
           "verticalDilutionOfPrecision" >>

Min(a, b) == IF a < b THEN a ELSE b

\* A dict with one more key / one key less
DictSet(d, k, v) == [x \in (DOMAIN d) \cup {k} |-> IF x = k THEN v ELSE d[x]]
DictDel(d, k) == [x \in (DOMAIN d) \ {k} |-> d[x]]
EmptyDict == [x \in {} |-> {}]

\* The sentenceData dict lineReceived builds: the type tag, and every schema
\* key whose positionally matching token (izip stops at the shorter of the
\* two lists) is not the empty string.
\* SentenceDataOf without the test value != "": a variant that stores empty
\* tokens too
SentenceDataOfAnyValue(sentenceType, contents) ==
    LET keys == SENTENCE_CONTENTS(sentenceType)
        zipped == 1..Min(Len(keys), Len(contents))
    IN  [k \in {"type"} \cup {keys[i] : i \in zipped} |->
            IF k = "type" THEN sentenceType
            ELSE contents[CHOOSE i \in zipped : keys[i] = k]]

SentenceDataOf(sentenceType, contents) ==
    LET keys == SENTENCE_CONTENTS(sentenceType)
        zipped == 1..Min(Len(keys), Len(contents))
        kept == {i \in zipped : contents[i] # <<>>}
    IN  [k \in {"type"} \cup {keys[i] : i \in kept} |->
            IF k = "type" THEN sentenceType
            ELSE contents[CHOOSE i \in kept : keys[i] = k]]

\* lineReceived without the call of _validateChecksum: a variant that hands
\* a sentence with a wrong checksum to the receiver
lineReceivedUnvalidated(rawSentence) ==
    LET sentence == Strip(rawSentence)
        splitSentence == _split(sentence)
    IN  IF splitSentence.exc # "ok"
            THEN [exc |-> splitSentence.exc, sentence |-> EmptyDict]
        ELSE LET sentenceType == Head(splitSentence.tokens)
                 contents == Tail(splitSentence.tokens)
             IN  IF sentenceType \notin SentenceTypes
                     THEN [exc |-> "ValueError", sentence |-> EmptyDict]
                 ELSE [exc |-> "ok",
                       sentence |-> SentenceDataOf(sentenceType, contents)]

\* lineReceived up to the point where the receiver is called:
\* [exc |-> the exception raised or "ok", sentence |-> the NMEASentence data]
lineReceived(rawSentence) ==
    LET sentence == Strip(rawSentence)
        checked == _validateChecksum(sentence)
        splitSentence == _split(sentence)
    IN  IF checked # "ok" THEN [exc |-> checked, sentence |-> EmptyDict]
        ELSE IF splitSentence.exc # "ok"
            THEN [exc |-> splitSentence.exc, sentence |-> EmptyDict]
        ELSE LET sentenceType == Head(splitSentence.tokens)
                 contents == Tail(splitSentence.tokens)
             IN  IF sentenceType \notin SentenceTypes
                     THEN [exc |-> "ValueError", sentence |-> EmptyDict]
                 ELSE [exc |-> "ok",
                       sentence |-> SentenceDataOf(sentenceType, contents)]

(***************************************************************************)
(* Conversions of raw tokens                                               *)
(***************************************************************************)
\* Floats are fixed-point: the float x is the integer x * Scale.  Tokens
\* with more than FracDigits fractional digits are outside the model.
FracDigits == 1

RECURSIVE Pow10(_)
Pow10(n) == IF n = 0 THEN 1 ELSE 10 * Pow10(n - 1)
Scale == Pow10(FracDigits)

AllDigits(s) == \A i \in 1..Len(s) : IsDigit(s[i])

RECURSIVE DigitsValue(_)
DigitsValue(s) ==
    IF s = <<>> THEN 0
    ELSE 10 * DigitsValue(SubSeq(s, 1, Len(s) - 1)) + DigitValue(s[Len(s)])

\* int(token): Some(value), or None for ValueError.  Surrounding blanks,
\* one leading sign and blanks between the sign and the digits are accepted
\* (PyOS_strtol skips whitespace before the sign, PyOS_strtoul after it).
ParseInt(token) ==
    LET s == Strip(token)
        signed == s # <<>> /\ s[1] \in {"+", "-"}
        digits == IF signed THEN LStrip(Tail(s)) ELSE s
    IN  IF digits = <<>> \/ ~AllDigits(digits) THEN None
        ELSE IF signed /\ s[1] = "-" THEN Some(-DigitsValue(digits))
        ELSE Some(DigitsValue(digits))

\* float('inf') and float('nan'), which have no place on the fixed-point
\* scale; float('-inf') is -Infinity.  The scale of the finite values ends
\* below Infinity.
Infinity == 2147483647
NaN == -2147483647 - 1

\* int(float(token)) for float(token): a variant that drops the fraction
ParseFloatWhole(token) ==
    LET parts == Split(Strip(token), ".")
    IN  IF Len(parts) > 2 \/ ~AllDigits(parts[1]) \/ parts[1] = <<>> THEN None
        ELSE Some(DigitsValue(parts[1]) * Scale)

\* float(token): Some(value * Scale), or None for ValueError.  The token is
\* stripped; after one optional sign it is inf, infinity or nan in any case,
\* or digits with at most one point and at least one digit, optionally
\* followed by e or E, an optional sign and at least one digit.  A value
\* that rounds to 2^1024 or more is inf.  Digits below the scale are
\* dropped; a finite value whose scaled magnitude is not below Infinity, the
\* largest integer of TLC, has no value in the model.  Each step of the
\* conversion works on the result of the step before, bound once as the
\* element of a one-element set.
ParseFloat(token) ==
    LET \* the digits from the first one that is not zero
        Significant(d) ==
            Slice(d, Cardinality({i \in 1..Len(d) : \A k \in 1..i : d[k] = "0"}) + 1,
                  Len(d))
        \* 2^1024 - 2^970, halfway between the largest float and 2^1024:
        \* a value from here on rounds to inf
        Overflow ==
            << "1", "7", "9", "7", "6", "9", "3", "1", "3", "4", "8", "6",
               "2", "3", "1", "5", "8", "0", "7", "9", "3", "7", "2", "8",
               "9", "7", "1", "4", "0", "5", "3", "0", "3", "4", "1", "5",
               "0", "7", "9", "9", "3", "4", "1", "3", "2", "7", "1", "0",
               "0", "3", "7", "8", "2", "6", "9", "3", "6", "1", "7", "3",
               "7", "7", "8", "9", "8", "0", "4", "4", "4", "9", "6", "8",
               "2", "9", "2", "7", "6", "4", "7", "5", "0", "9", "4", "6",
               "6", "4", "9", "0", "1", "7", "9", "7", "7", "5", "8", "7",
               "2", "0", "7", "0", "9", "6", "3", "3", "0", "2", "8", "6",
               "4", "1", "6", "6", "9", "2", "8", "8", "7", "9", "1", "0",
               "9", "4", "6", "5", "5", "5", "5", "4", "7", "8", "5", "1",
               "9", "4", "0", "4", "0", "2", "6", "3", "0", "6", "5", "7",
               "4", "8", "8", "6", "7", "1", "5", "0", "5", "8", "2", "0",
               "6", "8", "1", "9", "0", "8", "9", "0", "2", "0", "0", "0",
               "7", "0", "8", "3", "8", "3", "6", "7", "6", "2", "7", "3",
               "8", "5", "4", "8", "4", "5", "8", "1", "7", "7", "1", "1",
               "5", "3", "1", "7", "6", "4", "4", "7", "5", "7", "3", "0",
               "2", "7", "0", "0", "6", "9", "8", "5", "5", "5", "7", "1",
               "3", "6", "6", "9", "5", "9", "6", "2", "2", "8", "4", "2",
               "9", "1", "4", "8", "1", "9", "8", "6", "0", "8", "3", "4",
               "9", "3", "6", "4", "7", "5", "2", "9", "2", "7", "1", "9",
               "0", "7", "4", "1", "6", "8", "4", "4", "4", "3", "6", "5",
               "5", "1", "0", "7", "0", "4", "3", "4", "2", "7", "1", "1",
               "5", "5", "9", "6", "9", "9", "5", "0", "8", "0", "9", "3",
               "0", "4", "2", "8", "8", "0", "1", "7", "7", "9", "0", "4",
               "1", "7", "4", "4", "9", "7", "7", "9", "2" >>
        \* 0.d1d2... of `significant` is at least 0.d1d2... of Overflow
        Overflows(significant) ==
            ~\E i \in 1..Len(Overflow) :
                /\ DigitValue(IF i <= Len(significant) THEN significant[i] ELSE "0")
                       < DigitValue(Overflow[i])
                /\ \A k \in 1..(i - 1) :
                       (IF k <= Len(significant) THEN significant[k] ELSE "0")
                           = Overflow[k]
        \* the value 0.d1d2... * 10 ^ order of the significant digits; a
        \* finite value is below Infinity
        Magnitude(v) ==
            IF v.significant = <<>> \/ v.order + FracDigits <= 0 THEN 0
            ELSE IF v.order > Len(Overflow) THEN Infinity
            ELSE IF v.order = Len(Overflow) /\ Overflows(v.significant) THEN Infinity
            ELSE CHOOSE finite \in
                     {IF v.shift >= 0 THEN DigitsValue(v.significant) * Pow10(v.shift)
                      ELSE DigitsValue(Slice(v.significant, 1,
                                             Len(v.significant) + v.shift))} :
                     finite < Infinity
        \* a long exponent is beyond every float: what matters is its sign
        Exponent(d) ==
            IF ~d.hasExponent THEN 0
            ELSE (IF d.expNegative THEN -1 ELSE 1)
                     * (IF Len(Significant(d.expDigits)) > 4 THEN 99999
                        ELSE DigitsValue(d.expDigits))
        Scaled(g, fracLen) ==
            Magnitude([significant |-> g.significant,
                       order |-> Len(g.significant) - fracLen + g.e,
                       shift |-> g.e - fracLen + FracDigits])
        Number(d) ==
            IF \/ ~AllDigits(d.whole) \/ ~AllDigits(d.frac)
               \/ d.whole = <<>> /\ d.frac = <<>>
               \/ d.hasExponent /\ (d.expDigits = <<>> \/ ~AllDigits(d.expDigits))
                THEN None
            ELSE {Scaled(g, Len(d.frac)) :
                     g \in {[significant |-> Significant(d.whole \o d.frac),
                             e |-> Exponent(d)]}}
        Mantissa(p) ==
            IF Len(p.parts) > 2 THEN None
            ELSE UNION {Number(d) :
                     d \in {[whole |-> p.parts[1],
                             frac |-> IF Len(p.parts) = 2 THEN p.parts[2] ELSE <<>>,
                             hasExponent |-> p.hasExponent,
                             expNegative |-> p.exponent # <<>> /\ p.exponent[1] = "-",
                             expDigits |-> IF /\ p.exponent # <<>>
                                              /\ p.exponent[1] \in {"+", "-"}
                                           THEN Tail(p.exponent) ELSE p.exponent]}}
        \* e1: the place of the first e or E, or one past the end
        Unsigned(body, e1) ==
            IF [i \in 1..Len(body) |-> UpperChar(body[i])]
                   \in {<<"I", "N", "F">>, <<"I", "N", "F", "I", "N", "I", "T", "Y">>}
                THEN Some(Infinity)
            ELSE IF [i \in 1..Len(body) |-> UpperChar(body[i])] = <<"N", "A", "N">>
                THEN Some(NaN)
            ELSE Mantissa([parts |-> Split(Slice(body, 1, e1 - 1), "."),
                           hasExponent |-> e1 <= Len(body),
                           exponent |-> Slice(body, e1 + 1, Len(body))])
        FirstE(body) ==
            CHOOSE i \in 1..(Len(body) + 1) :
                /\ i = Len(body) + 1 \/ body[i] \in {"e", "E"}
                /\ \A k \in 1..(i - 1) : body[k] \notin {"e", "E"}
        Sign(s) ==
            UNION {{IF s # <<>> /\ s[1] = "-" /\ value # NaN THEN -value ELSE value :
                        value \in UNION {Unsigned(body, e1) : e1 \in {FirstE(body)}}} :
                       body \in {IF s # <<>> /\ s[1] \in {"+", "-"} THEN Tail(s) ELSE s}}
    IN  UNION {Sign(s) : s \in {Strip(token)}}

\* getattr(self.currentSentence, key): the token, or None when absent
Attr(sentence, key) ==
    IF key \in DOMAIN sentence THEN Some(sentence[key]) ELSE None

(***************************************************************************)
(* The typed values of twisted.positioning.base, as the adapter uses them  *)
(***************************************************************************)
\* base.Heading(): course and variation both unknown
NewHeading == [angle |-> None, variation |-> None]
\* base.PositionError(): no dilution of precision known
NewPositionError == [pdop |-> None, hdop |-> None, vdop |-> None]

Abs(x) == IF x < 0 THEN -x ELSE x

\* Angle.setSign / Coordinate.setSign: sign * abs(angle)
CoordinateSetSign(coordinate, sign) ==
    [coordinate EXCEPT !.angle60 = sign * Abs(coordinate.angle60)]

\* Heading.setSign sets the sign of the variation; Some(heading) or None when
\* the variation is unknown and the call raises.
HeadingSetSign(heading, sign) ==
    IF heading.variation = None THEN None
    ELSE Some([heading EXCEPT
                  !.variation = Some(IF The(@) = NaN THEN NaN
                                     ELSE sign * Abs(The(@)))])

\* base.Satellite(prn, azimuth, elevation, snr): the identifier is int(prn);
\* None when int() raises.
NewSatellite(prn, azimuth, elevation, snr) ==
    IF ParseInt(prn) = None THEN None
    ELSE Some([identifier |-> The(ParseInt(prn)), azimuth |-> azimuth,
               elevation |-> elevation, signalToNoiseRatio |-> snr,
               isUsed |-> None])

\* set.update on beacon sets whose members are unique by identifier
BeaconsUpdate(new, old) ==
    new \cup {b \in old : \A n \in new : n.identifier # b.identifier}

\* set.add on a beacon set: a member with the same identifier is kept
BeaconsAdd(beacons, satellite) ==
    IF \E b \in beacons : b.identifier = satellite.identifier THEN beacons
    ELSE beacons \cup {satellite}

IsLeap(y) == (y % 4 = 0 /\ y % 100 # 0) \/ y % 400 = 0
DaysInMonth(y, m) ==
    IF m = 2 THEN (IF IsLeap(y) THEN 29 ELSE 28)
    ELSE IF m \in {4, 6, 9, 11} THEN 30 ELSE 31

\* datetime.date(year, month, day): Some(date) or None for ValueError
NewDate(year, month, day) ==
    IF month \in 1..12 /\ day >= 1 /\ day <= DaysInMonth(year, month)
        THEN Some([year |-> year, month |-> month, day |-> day])
    ELSE None

\* bool(datetime.time) on Python 2: midnight is false
TimeIsTrue(t) == ~(t.hour = 0 /\ t.minute = 0 /\ t.second = 0)

(***************************************************************************)
(* The adapter's per-field fixers.                                         *)
(*                                                                         *)
(* A fixer transforms a context c:                                         *)
(*   c.sd   _sentenceData          c.st  _state                            *)
(*   c.sh   the keys whose scratch and state values are the same object    *)
(*   c.al   the Satellite objects that two beacon sets both hold: a beacon  *)
(*          set sits in a slot, <<"sd", key>> of _sentenceData or           *)
(*          <<"st", key>> of _state, and [slots |-> {s, t}, identifier |->  *)
(*          i] says that the sets at s and t hold one Satellite object of   *)
(*          identifier i                                                    *)
(*   c.wr   the scratch keys assigned or mutated so far in this call       *)
(*   c.exc  "ok", or the exception that ended the call                     *)
(*   c.cfg  the adapter's settings for datestamps                          *)
(***************************************************************************)
Raise(c, e) == [c EXCEPT !.exc = e]

\* The slot is deleted or takes a new object
Unshared(al, slot) == {r \in al : slot \notin r.slots}

\* Slot `to` takes the object that slot `from` holds, if it holds one: a
\* beacon set of The(held)
SharedFrom(al, from, to, held) ==
    IF held = None THEN al
    ELSE LET kept == Unshared(al, to)
         IN  kept \cup {[slots |-> {from, to}, identifier |-> b.identifier] :
                           b \in The(held)}
                  \cup {[slots |-> (r.slots \ {from}) \cup {to},
                         identifier |-> r.identifier] :
                           r \in {x \in kept : from \in x.slots}}

\* self._sentenceData[key] = <a new object>
Put(c, key, value) ==
    [c EXCEPT !.sd = DictSet(@, key, value),
              !.sh = @ \ {key},
              !.al = Unshared(@, <<"sd", key>>),
              !.wr = @ \cup {key}]

\* Mutation of the object self._sentenceData[key]: _state sees it too when
\* it holds the same object.
Mutate(c, key, value) ==
    [c EXCEPT !.sd = DictSet(@, key, value),
              !.st = IF key \in c.sh THEN DictSet(@, key, value) ELSE @,
              !.wr = @ \cup {key}]

\* The lengths strptime's %H%M%S can give hour, minute and second, in the
\* order its regular expression tries them.
HMSLengths == << <<2, 2, 2>>, <<2, 2, 1>>, <<2, 1, 2>>, <<2, 1, 1>>,
                 <<1, 2, 2>>, <<1, 2, 1>>, <<1, 1, 2>>, <<1, 1, 1>> >>

HMSMatches(s, l) ==
    /\ l[1] + l[2] + l[3] = Len(s)
    /\ LET h == DigitsValue(SubSeq(s, 1, l[1]))
           m == DigitsValue(SubSeq(s, l[1] + 1, l[1] + l[2]))
           sec == DigitsValue(SubSeq(s, l[1] + l[2] + 1, Len(s)))
       IN  h <= 23 /\ m <= 59 /\ sec <= 61

\* datetime.datetime.strptime(s, '%H%M%S').time(): Some(time) or None
StrptimeHMS(s) ==
    IF ~AllDigits(s) \/ ~(\E i \in 1..Len(HMSLengths) : HMSMatches(s, HMSLengths[i]))
        THEN None
    ELSE LET i == CHOOSE j \in 1..Len(HMSLengths) :
                    /\ HMSMatches(s, HMSLengths[j])
                    /\ \A k \in 1..(j - 1) : ~HMSMatches(s, HMSLengths[k])
             l == HMSLengths[i]
             sec == DigitsValue(SubSeq(s, l[1] + l[2] + 1, Len(s)))
         IN  IF sec > 59 THEN None
             ELSE Some([hour |-> DigitsValue(SubSeq(s, 1, l[1])),
                        minute |-> DigitsValue(SubSeq(s, l[1] + 1, l[1] + l[2])),
                        second |-> sec])

_fixTimestamp(c, sentence) ==
    LET timestamp == Split(sentence["timestamp"], ".")[1]
        timeObject == StrptimeHMS(timestamp)
    IN  IF timeObject = None THEN Raise(c, "ValueError")
        ELSE Put(c, "_time", The(timeObject))

INTELLIGENT_DATESTAMPS == 0
DATESTAMPS_FROM_20XX == 1
DATESTAMPS_FROM_19XX == 2
DATESTAMP_HANDLING == INTELLIGENT_DATESTAMPS
INTELLIGENT_DATE_THRESHOLD == 80

\* The century rule with `year >= threshold` for `year > threshold`: a
\* variant that puts the threshold year itself in the 1900s
ResolveYearFromThreshold(handling, threshold, year) ==
    IF year < 0 THEN None
    ELSE IF handling = INTELLIGENT_DATESTAMPS
        THEN (IF year >= threshold THEN Some(1900 + year) ELSE Some(2000 + year))
    ELSE IF handling = DATESTAMPS_FROM_20XX THEN Some(2000 + year)
    ELSE IF handling = DATESTAMPS_FROM_19XX THEN Some(1900 + year)
    ELSE None

\* The century rule of _fixDatestamp: Some(four-digit year) or None.  With
\* a negative year '19%02d' % year is no number for int().
ResolveYear(handling, threshold, year) ==
    IF year < 0 THEN None
    ELSE IF handling = INTELLIGENT_DATESTAMPS
        THEN (IF year > threshold THEN Some(1900 + year) ELSE Some(2000 + year))
    ELSE IF handling = DATESTAMPS_FROM_20XX THEN Some(2000 + year)
    ELSE IF handling = DATESTAMPS_FROM_19XX THEN Some(1900 + year)
    ELSE None

_fixDatestamp(c, sentence) ==
    LET datestamp == sentence["datestamp"]
        n == Len(datestamp)
        day == ParseInt(Slice(datestamp, 1, Min(2, n)))
        month == ParseInt(Slice(datestamp, 3, Min(4, n)))
        year == ParseInt(Slice(datestamp, 5, Min(6, n)))
    IN  IF day = None \/ month = None \/ year = None THEN Raise(c, "ValueError")
        ELSE LET full == ResolveYear(c.cfg.handling, c.cfg.threshold,
                                     The(year))
             IN  IF full = None THEN Raise(c, "ValueError")
                 ELSE LET date == NewDate(The(full), The(month), The(day))
                      IN  IF date = None THEN Raise(c, "ValueError")
                          ELSE Put(c, "_date", The(date))

\* coordinateName is "latitude" or "longitude"
_fixCoordinateFloat(c, sentence, coordinateName) ==
    LET nmeaCoordinate == sentence[coordinateName \o "Float"]
        parts == Split(nmeaCoordinate, ".")
    IN  IF Len(parts) # 2 THEN Raise(c, "ValueError")
        ELSE LET left == parts[1]
                 right == parts[2]
                 degrees == ParseInt(Slice(left, 1, Len(left) - 2))
                 minutes == ParseFloat(
                     Slice(left, Len(left) - Min(2, Len(left)) + 1, Len(left))
                     \o <<".">> \o right)
             IN  IF degrees = None \/ minutes = None THEN Raise(c, "ValueError")
                 ELSE Put(c, coordinateName,
                          [angle60 |-> IF Abs(The(minutes)) = Infinity
                                           THEN The(minutes)
                                       ELSE CHOOSE angle \in
                                                {60 * Scale * The(degrees)
                                                     + The(minutes)} :
                                                Abs(angle) < Infinity,
                           angleType |-> coordinateName])

\* COORDINATE_SIGNS[hemisphere.upper()]: Some(sign) or None for KeyError
COORDINATE_SIGNS(hemisphere) ==
    IF Len(hemisphere) # 1 THEN None
    ELSE IF UpperChar(hemisphere[1]) \in {"N", "E"} THEN Some(1)
    ELSE IF UpperChar(hemisphere[1]) \in {"S", "W"} THEN Some(-1)
    ELSE None

\* _getHemisphereSign: hemisphereKey is the sentence key of the letter
_getHemisphereSign(sentence, hemisphereKey) ==
    COORDINATE_SIGNS(sentence[hemisphereKey])

\* _fixHemisphereSign for a coordinate: hemisphereKey names the letter,
\* sentenceDataKey the scratch entry whose sign is set.
_fixHemisphereSign(c, sentence, hemisphereKey, sentenceDataKey) ==
    LET sign == _getHemisphereSign(sentence, hemisphereKey) IN
    IF sign = None THEN Raise(c, "ValueError")
    ELSE IF sentenceDataKey \notin DOMAIN c.sd THEN Raise(c, "KeyError")
    ELSE IF sentenceDataKey = "heading"
        THEN LET signed == HeadingSetSign(c.sd["heading"], The(sign))
             IN  IF signed = None THEN Raise(c, "AttributeError")
                 ELSE Mutate(c, "heading", The(signed))
    ELSE Mutate(c, sentenceDataKey,
                CoordinateSetSign(c.sd[sentenceDataKey], The(sign)))

\* _convert(sourceKey, converter=lambda s: base.Altitude(float(s)))
_convert(c, sentence, sourceKey) ==
    LET value == ParseFloat(sentence[sourceKey]) IN
    IF value = None THEN Raise(c, "ValueError")
    ELSE Put(c, sourceKey, [kind |-> "Altitude", value |-> The(value)])

\* NMEAAdapter.STATEFUL_UPDATE[sentenceKey]: the state key and the attribute
STATEFUL_UPDATE(sentenceKey) ==
    IF sentenceKey = "trueHeading"
        THEN [state |-> "heading", attr |-> "angle"]
    ELSE IF sentenceKey = "magneticVariation"
        THEN [state |-> "heading", attr |-> "variation"]
    ELSE IF sentenceKey = "horizontalDilutionOfPrecision"
        THEN [state |-> "positionError", attr |-> "hdop"]
    ELSE IF sentenceKey = "verticalDilutionOfPrecision"
        THEN [state |-> "positionError", attr |-> "vdop"]
    ELSE [state |-> "positionError", attr |-> "pdop"]

\* The factory of a stateful key: base.Heading() or base.PositionError()
Factory(stateKey) ==
    IF stateKey = "heading" THEN NewHeading ELSE NewPositionError

\* setattr(object, attr, Some(value)) on a Heading or PositionError
SetAttr(object, attr, value) ==
    [a \in DOMAIN object |-> IF a = attr THEN Some(value) ELSE object[a]]

\* _statefulUpdate that always starts from a new object of the factory: a
\* variant that forgets what earlier sentences accumulated
_statefulUpdateFromFactory(c, sentence, sentenceKey) ==
    LET su == STATEFUL_UPDATE(sentenceKey)
        seeded == Put(c, su.state, Factory(su.state))
        newValue == ParseFloat(sentence[sentenceKey])
    IN  IF newValue = None THEN Raise(seeded, "ValueError")
        ELSE Mutate(seeded, su.state,
                    SetAttr(seeded.sd[su.state], su.attr, The(newValue)))

\* The scratch entry is seeded from _state (the same object) or from the
\* factory before the converter runs, so it stays seeded when float() raises.
_statefulUpdate(c, sentence, sentenceKey) ==
    LET su == STATEFUL_UPDATE(sentenceKey)
        seeded ==
            IF su.state \in DOMAIN c.sd THEN c
            ELSE IF su.state \in DOMAIN c.st
                THEN [c EXCEPT !.sd = DictSet(c.sd, su.state, c.st[su.state]),
                               !.sh = c.sh \cup {su.state},
                               !.wr = c.wr \cup {su.state}]
            ELSE Put(c, su.state, Factory(su.state))
        newValue == ParseFloat(sentence[sentenceKey])
    IN  IF newValue = None THEN Raise(seeded, "ValueError")
        ELSE Mutate(seeded, su.state,
                    SetAttr(seeded.sd[su.state], su.attr, The(newValue)))

\* NMEAAdapter.UNIT_CONVERTERS[unit] applied to a token: a base.Speed whose
\* value is float(token) times MPS_PER_KNOT ("N") or MPS_PER_KPH ("K"); the
\* factor is kept symbolic in `kind`.
UnitConvert(c, unit, token, valueKey) ==
    IF unit \notin {<<"N">>, <<"K">>} THEN Raise(c, "KeyError")
    ELSE IF token = None THEN Raise(c, "TypeError")
    ELSE IF ParseFloat(The(token)) = None THEN Raise(c, "ValueError")
    ELSE Put(c, valueKey,
             [kind |-> IF unit = <<"N">> THEN "SpeedFromKnots" ELSE "SpeedFromKPH",
              value |-> The(ParseFloat(The(token)))])

\* _fixUnits(unitKey=unitKey): the value key is unitKey without "Units"
_fixUnits(c, sentence, unitKey, valueKey) ==
    LET unit == sentence[unitKey] IN
    IF unit = <<"M">> THEN c
    ELSE UnitConvert(c, unit, Attr(sentence, valueKey), valueKey)

\* _fixUnits(valueKey='speed', sourceKey='speedInKnots', unit='N')
_fixSpeedInKnots(c, sentence) ==
    UnitConvert(c, <<"N">>, Attr(sentence, "speedInKnots"), "speed")

IndexName == <<"0", "1", "2", "3", "4", "5", "6", "7", "8", "9", "10", "11">>

GSVSlots == 4

\* The loop of _fixGSV with `break` for `continue`: a variant that stops at
\* the first slot without PRN or SNR
RECURSIVE _fixGSVUntilMissing(_, _, _)
_fixGSVUntilMissing(c, sentence, index) ==
    IF index = GSVSlots THEN c
    ELSE LET suffix == "_" \o IndexName[index + 1]
             prn == Attr(sentence, "satellitePRN" \o suffix)
             snr == Attr(sentence, "signalToNoiseRatio" \o suffix)
         IN  IF prn = None \/ snr = None THEN c
             ELSE LET satellite ==
                          NewSatellite(The(prn),
                                       Attr(sentence, "azimuth" \o suffix),
                                       Attr(sentence, "elevation" \o suffix), snr)
                  IN  IF satellite = None THEN Raise(c, "ValueError")
                      ELSE _fixGSVUntilMissing(
                               Mutate(c, "_partialBeaconInformation",
                                      BeaconsAdd(c.sd["_partialBeaconInformation"],
                                                 The(satellite))),
                               sentence, index + 1)

\* The loop of _fixGSV from slot `index` (0-based) on
RECURSIVE _fixGSVFrom(_, _, _)
_fixGSVFrom(c, sentence, index) ==
    IF index = GSVSlots THEN c
    ELSE LET suffix == "_" \o IndexName[index + 1]
             prn == Attr(sentence, "satellitePRN" \o suffix)
             azimuth == Attr(sentence, "azimuth" \o suffix)
             elevation == Attr(sentence, "elevation" \o suffix)
             snr == Attr(sentence, "signalToNoiseRatio" \o suffix)
         IN  IF prn = None \/ snr = None
                 THEN _fixGSVFrom(c, sentence, index + 1)
             ELSE LET satellite == NewSatellite(The(prn), azimuth, elevation, snr)
                  IN  IF satellite = None THEN Raise(c, "ValueError")
                      ELSE _fixGSVFrom(
                               Mutate(c, "_partialBeaconInformation",
                                      BeaconsAdd(c.sd["_partialBeaconInformation"],
                                                 The(satellite))),
                               sentence, index + 1)

_fixGSV(c, sentence) ==
    _fixGSVFrom(Put(c, "_partialBeaconInformation", {}), sentence, 0)

GSASlots == 12

\* The loop of _fixGSA from slot `index` (0-based) on
RECURSIVE _fixGSAFrom(_, _, _)
_fixGSAFrom(c, sentence, index) ==
    IF index = GSASlots THEN c
    ELSE LET prn == Attr(sentence, "usedSatellitePRN_" \o IndexName[index + 1])
         IN  IF prn = None THEN _fixGSAFrom(c, sentence, index + 1)
             ELSE IF ParseInt(The(prn)) = None THEN Raise(c, "ValueError")
             ELSE _fixGSAFrom(
                      Mutate(c, "_usedPRNs",
                             c.sd["_usedPRNs"] \cup ParseInt(The(prn))),
                      sentence, index + 1)

_fixGSA(c, sentence) ==
    _fixGSAFrom(Put(c, "_usedPRNs", {}), sentence, 0)

_sentenceSpecificFix(c, sentence) ==
    IF sentence["type"] = GPGSV THEN _fixGSV(c, sentence)
    ELSE IF sentence["type"] = GPGSA THEN _fixGSA(c, sentence)
    ELSE c

\* The keys of NMEAAdapter.FIXERS in sorted() order
FixerKeys ==
    << "altitude", "altitudeUnits", "datestamp", "heightOfGeoidAboveWGS84",
       "heightOfGeoidAboveWGS84Units", "horizontalDilutionOfPrecision",
       "latitudeFloat", "latitudeHemisphere", "longitudeFloat",
       "longitudeHemisphere", "magneticVariation",
       "magneticVariationDirection", "positionDilutionOfPrecision",
       "speedInKnots", "timestamp", "trueHeading", "type",
       "verticalDilutionOfPrecision" >>

\* NMEAAdapter.FIXERS[key](self)
FIXERS(c, sentence, key) ==
    CASE key = "type" -> _sentenceSpecificFix(c, sentence)
      [] key = "timestamp" -> _fixTimestamp(c, sentence)
      [] key = "datestamp" -> _fixDatestamp(c, sentence)
      [] key = "latitudeFloat" -> _fixCoordinateFloat(c, sentence, "latitude")
      [] key = "latitudeHemisphere" ->
            _fixHemisphereSign(c, sentence, "latitudeHemisphere", "latitude")
      [] key = "longitudeFloat" -> _fixCoordinateFloat(c, sentence, "longitude")
      [] key = "longitudeHemisphere" ->
            _fixHemisphereSign(c, sentence, "longitudeHemisphere", "longitude")
      [] key = "altitude" -> _convert(c, sentence, "altitude")
      [] key = "altitudeUnits" ->
            _fixUnits(c, sentence, "altitudeUnits", "altitude")
      [] key = "heightOfGeoidAboveWGS84" ->
            _convert(c, sentence, "heightOfGeoidAboveWGS84")
      [] key = "heightOfGeoidAboveWGS84Units" ->
            _fixUnits(c, sentence, "heightOfGeoidAboveWGS84Units",
                      "heightOfGeoidAboveWGS84")
      [] key = "magneticVariationDirection" ->
            _fixHemisphereSign(c, sentence, "magneticVariationDirection",
                               "heading")
      [] key = "speedInKnots" -> _fixSpeedInKnots(c, sentence)
      [] OTHER -> _statefulUpdate(c, sentence, key)

\* _cleanCurrentSentence over the keys in descending order: a variant that
\* runs a hemisphere's fixer before its magnitude's
RECURSIVE _cleanDownFrom(_, _, _)
_cleanDownFrom(c, sentence, i) ==
    IF i = 0 \/ c.exc # "ok" THEN c
    ELSE IF FixerKeys[i] \in DOMAIN sentence
        THEN _cleanDownFrom(FIXERS(c, sentence, FixerKeys[i]), sentence, i - 1)
    ELSE _cleanDownFrom(c, sentence, i - 1)

_cleanCurrentSentenceDescending(c, sentence) ==
    _cleanDownFrom(c, sentence, Len(FixerKeys))

\* _cleanCurrentSentence: the fixers of the present keys, in sorted order,
\* until one raises
RECURSIVE _cleanFrom(_, _, _)
_cleanFrom(c, sentence, i) ==
    IF i > Len(FixerKeys) \/ c.exc # "ok" THEN c
    ELSE IF FixerKeys[i] \in DOMAIN sentence
        THEN _cleanFrom(FIXERS(c, sentence, FixerKeys[i]), sentence, i + 1)
    ELSE _cleanFrom(c, sentence, i + 1)

_cleanCurrentSentence(c, sentence) == _cleanFrom(c, sentence, 1)

(***************************************************************************)
(* Folding a sentence into the state and firing the callbacks              *)
(***************************************************************************)
Get(d, k) == IF k \in DOMAIN d THEN Some(d[k]) ELSE None

_isFirstGSVSentence(sentence) ==
    Attr(sentence, "GSVSentenceIndex") = Some(<<"1">>)

\* Both attributes read as None when absent, so a sentence that is no GSV
\* sentence at all compares None == None.
_isLastGSVSentence(sentence) ==
    Attr(sentence, "GSVSentenceIndex") = Attr(sentence, "numberOfGSVSentences")

\* The Satellite of this identifier in the beacon set at `slot` is one of
\* the objects in _sentenceData['_partialBeaconInformation'].beacons
InNewBeacons(c, slot, identifier) ==
    /\ \E beacon \in c.sd["_partialBeaconInformation"] :
           beacon.identifier = identifier
    /\ \/ slot = <<"sd", "_partialBeaconInformation">>
       \/ slot = <<"st", "_partialBeaconInformation">>
              /\ "_partialBeaconInformation" \in c.sh
       \/ [slots |-> {<<"sd", "_partialBeaconInformation">>, slot},
           identifier |-> identifier] \in c.al

\* beacon.isUsed = (beacon.identifier in usedPRNs) for every beacon of
\* _sentenceData['_partialBeaconInformation']: every beacon set that holds
\* one of these Satellite objects sees its flag
MarkUsed(c, usedPRNs) ==
    [c EXCEPT
        !.sd = [k \in DOMAIN @ |->
                   IF k \notin {"_partialBeaconInformation", "beaconInformation"}
                       THEN @[k]
                   ELSE {IF InNewBeacons(c, <<"sd", k>>, b.identifier)
                             THEN [b EXCEPT
                                      !.isUsed = Some(b.identifier \in usedPRNs)]
                         ELSE b : b \in @[k]}],
        !.st = [k \in DOMAIN @ |->
                   IF k \notin {"_partialBeaconInformation", "beaconInformation"}
                       THEN @[k]
                   ELSE {IF InNewBeacons(c, <<"st", k>>, b.identifier)
                             THEN [b EXCEPT
                                      !.isUsed = Some(b.identifier \in usedPRNs)]
                         ELSE b : b \in @[k]}],
        !.wr = @ \cup {k \in {"_partialBeaconInformation", "beaconInformation"}
                                \cap DOMAIN c.sd :
                          \E b \in c.sd[k] :
                              InNewBeacons(c, <<"sd", k>>, b.identifier)}]

\* new.beacons.update(old.beacons): the Satellite objects that `new` takes
\* from `old` are then in both sets; one set updated with itself is unchanged
MergeOld(c) ==
    LET new == <<"sd", "_partialBeaconInformation">>
        old == <<"st", "_partialBeaconInformation">>
        added == BeaconsUpdate(c.sd[new[2]], c.st[old[2]]) \ c.sd[new[2]]
        taken == {b.identifier : b \in added}
    IN  IF new[2] \in c.sh \/ added = {}
            THEN [c EXCEPT !.wr = c.wr \cup {new[2]}]
        ELSE [c EXCEPT
                 !.sd = DictSet(c.sd, new[2], c.sd[new[2]] \cup added),
                 !.al = c.al \cup {[slots |-> {new, old}, identifier |-> i] :
                                      i \in taken}
                             \cup {[slots |-> (r.slots \ {old}) \cup {new},
                                    identifier |-> r.identifier] :
                                      r \in {x \in c.al :
                                                /\ old \in x.slots
                                                /\ new \notin x.slots
                                                /\ x.identifier \in taken}},
                 !.wr = c.wr \cup {new[2]}]

\* The steps of the method, from the innermost set outwards: the used PRNs
\* of the state or else of the sentence; the beacons of `new` marked with
\* them; `new` merged with the accumulator of the state; and, on the last
\* sentence of a group, the accumulator dropped and `new` promoted.
_updateBeaconInformation(c, sentence) ==
    IF "_partialBeaconInformation" \notin DOMAIN c.sd THEN c
    ELSE CHOOSE updated \in
        {IF ~_isLastGSVSentence(sentence) THEN merged
         ELSE IF ~_isFirstGSVSentence(sentence)
                 /\ "_partialBeaconInformation" \notin DOMAIN merged.st
             THEN Raise(merged, "KeyError")      \* del self._state[...]
         ELSE [merged EXCEPT
                  \* del self._state['_partialBeaconInformation']
                  !.st = IF _isFirstGSVSentence(sentence) THEN @
                         ELSE DictDel(@, "_partialBeaconInformation"),
                  \* bi = self._sentenceData.pop('_partialBeaconInformation');
                  \* self._sentenceData['beaconInformation'] = bi
                  !.sd = DictSet(DictDel(@, "_partialBeaconInformation"),
                                 "beaconInformation",
                                 @["_partialBeaconInformation"]),
                  !.sh = @ \ {"_partialBeaconInformation", "beaconInformation"},
                  !.al = Unshared(
                             SharedFrom(
                                 IF _isFirstGSVSentence(sentence) THEN @
                                 ELSE Unshared(@, <<"st", "_partialBeaconInformation">>),
                                 <<"sd", "_partialBeaconInformation">>,
                                 <<"sd", "beaconInformation">>,
                                 Get(merged.sd, "_partialBeaconInformation")),
                             <<"sd", "_partialBeaconInformation">>),
                  !.wr = @ \cup {"beaconInformation"}] :
            merged \in
              {IF "_partialBeaconInformation" \notin DOMAIN marked.st THEN marked
               ELSE MergeOld(marked) :
                  marked \in
                    {IF usedPRNs = None THEN new ELSE MarkUsed(new, The(usedPRNs)) :
                        <<new, usedPRNs>> \in
                          {<<given, \* a or b: an empty set is false
                              IF Get(given.st, "_usedPRNs") \notin {None, Some({})}
                                  THEN Get(given.st, "_usedPRNs")
                              ELSE Get(given.sd, "_usedPRNs")>> : given \in {c}}}}} :
        TRUE

\* _combineDateAndTime that takes 1970-01-01 for a date it does not have: a
\* variant that combines a time of day alone
_combineDateAndTimeSinceEpoch(c) ==
    IF "_time" \notin DOMAIN c.sd THEN c
    ELSE LET date == IF "_date" \in DOMAIN c.sd THEN c.sd["_date"]
                     ELSE [year |-> 1970, month |-> 1, day |-> 1]
             time == IF TimeIsTrue(c.sd["_time"]) THEN Some(c.sd["_time"])
                     ELSE Get(c.st, "_time")
         IN  IF time = None THEN c
             ELSE Put(c, "time", [date |-> date, time |-> The(time)])

_combineDateAndTime(c) ==
    IF "_date" \notin DOMAIN c.sd \/ "_time" \notin DOMAIN c.sd THEN c
    ELSE LET date == c.sd["_date"]
             time == IF TimeIsTrue(c.sd["_time"]) THEN Some(c.sd["_time"])
                     ELSE Get(c.st, "_time")
         IN  IF time = None THEN c
             ELSE Put(c, "time", [date |-> date, time |-> The(time)])

\* self._state.update(self._sentenceData)
StateUpdate(c) ==
    [c EXCEPT
        !.st = [k \in (DOMAIN c.st) \cup (DOMAIN c.sd) |->
                   IF k \in DOMAIN c.sd THEN c.sd[k] ELSE c.st[k]],
        !.sh = DOMAIN c.sd,
        !.al = SharedFrom(
                   SharedFrom(@, <<"sd", "_partialBeaconInformation">>,
                              <<"st", "_partialBeaconInformation">>,
                              Get(c.sd, "_partialBeaconInformation")),
                   <<"sd", "beaconInformation">>, <<"st", "beaconInformation">>,
                   Get(c.sd, "beaconInformation"))]

_updateState(c, sentence) ==
    LET beacons == _updateBeaconInformation(c, sentence) IN
    IF beacons.exc # "ok" THEN beacons
    ELSE StateUpdate(_combineDateAndTime(beacons))

\* The methods of ipositioning.IPositioningReceiver and their positional
\* parameters, in the order the loop of _fireSentenceCallbacks visits them:
\* the code iterates a dict keyed by the method names, which CPython 2.7
\* (string hashes not randomized) lays out in this order.
REQUIRED_CALLBACK_FIELDS ==
    << [name |-> "headingReceived", fields |-> <<"heading">>],
       [name |-> "beaconInformationReceived",
        fields |-> <<"beaconInformation">>],
       [name |-> "speedReceived", fields |-> <<"speed">>],
       [name |-> "climbReceived", fields |-> <<"climb">>],
       [name |-> "positionReceived", fields |-> <<"latitude", "longitude">>],
       [name |-> "timeReceived", fields |-> <<"time">>],
       [name |-> "altitudeReceived", fields |-> <<"altitude">>],
       [name |-> "positionErrorReceived", fields |-> <<"positionError">>] >>

Range(seq) == {seq[i] : i \in 1..Len(seq)}

\* CallbackCall without the KeyError on a missing state key: a variant that
\* calls with the required fields the state happens to hold
CallbackCallWithAvailable(c, cb) ==
    LET requiredFields == Range(cb.fields)
        available == requiredFields \cap DOMAIN c.st
    IN  IF requiredFields \cap DOMAIN c.sd # {}
            THEN << [name |-> cb.name,
                     kwargs |-> [f \in available |-> c.st[f]]] >>
        ELSE <<>>

\* One round of the loop of _fireSentenceCallbacks: the call made for the
\* callback `cb`, if any.  A KeyError on a missing state key skips the
\* callback.
CallbackCall(c, cb) ==
    LET requiredFields == Range(cb.fields)
        atLeastOnePresentInSentence == requiredFields \cap DOMAIN c.sd # {}
    IN  IF ~(requiredFields \subseteq DOMAIN c.st) THEN <<>>
        ELSE IF atLeastOnePresentInSentence
            THEN << [name |-> cb.name,
                     kwargs |-> [f \in requiredFields |-> c.st[f]]] >>
        ELSE <<>>

\* The loop of _fireSentenceCallbacks with `break` for `continue`: a variant
\* that stops at the first callback whose fields are not all in the state
RECURSIVE _fireFromUntilMissing(_, _)
_fireFromUntilMissing(c, i) ==
    IF i > Len(REQUIRED_CALLBACK_FIELDS) THEN <<>>
    ELSE IF ~(Range(REQUIRED_CALLBACK_FIELDS[i].fields) \subseteq DOMAIN c.st)
        THEN <<>>
    ELSE CallbackCall(c, REQUIRED_CALLBACK_FIELDS[i])
             \o _fireFromUntilMissing(c, i + 1)

RECURSIVE _fireFrom(_, _)
_fireFrom(c, i) ==
    IF i > Len(REQUIRED_CALLBACK_FIELDS) THEN <<>>
    ELSE CallbackCall(c, REQUIRED_CALLBACK_FIELDS[i]) \o _fireFrom(c, i + 1)

_fireSentenceCallbacks(c) == _fireFrom(c, 1)

\* _validateCurrentSentence that looks at the fix quality only: a variant
\* that takes a void GPRMC or a GPGSA without a fix for a valid sentence
InvalidFixQualityOnly(sentence) ==
    Attr(sentence, "fixQuality") = Some(<<"0">>)

\* _validateCurrentSentence raises InvalidSentence
InvalidFix(sentence) ==
    \/ Attr(sentence, "fixQuality") = Some(<<"0">>)
    \/ Attr(sentence, "dataMode") = Some(<<"V">>)
    \/ Attr(sentence, "fixType") = Some(<<"1">>)

\* clear() that resets the scratch map only: a variant that keeps _state
ClearedSentenceDataOnly(c) ==
    [c EXCEPT !.sd = EmptyDict, !.sh = {},
              !.al = {r \in c.al : \A slot \in r.slots : slot[1] = "st"}]

\* NMEAAdapter.clear on a context
Cleared(c) ==
    [c EXCEPT !.st = EmptyDict, !.sd = EmptyDict, !.sh = {}, !.al = {}]

\* sentenceReceived with `except Exception` for `except
\* base.InvalidSentence`: a variant that answers every failed conversion with
\* clear()
sentenceReceivedClearingOnError(c, sentence) ==
    LET cleaned == IF InvalidFix(sentence) THEN Cleared(c)
                   ELSE _cleanCurrentSentence(c, sentence)
        caught == IF cleaned.exc # "ok" THEN Cleared([cleaned EXCEPT !.exc = "ok"])
                  ELSE cleaned
        updated == _updateState(caught, sentence)
    IN  [c |-> updated,
         calls |-> IF updated.exc # "ok" THEN <<>>
                   ELSE _fireSentenceCallbacks(updated)]

\* NMEAAdapter.sentenceReceived: [c |-> the context the call leaves,
\* calls |-> the callbacks it made]
sentenceReceived(c, sentence) ==
    LET cleaned == IF InvalidFix(sentence) THEN Cleared(c)
                   ELSE _cleanCurrentSentence(c, sentence)
        updated == IF cleaned.exc # "ok" THEN cleaned
                   ELSE _updateState(cleaned, sentence)
    IN  [c |-> updated,
         calls |-> IF updated.exc # "ok" THEN <<>>
                   ELSE _fireSentenceCallbacks(updated)]

(***************************************************************************)
(* Input lines                                                             *)
(***************************************************************************)
HexChars == Digits \o LowerHex

\* "%02x" % n
HexByte(n) == <<HexChars[(n \div 16) + 1], HexChars[(n % 16) + 1]>>

\* sep.join(tokens[a..b]), by halves
RECURSIVE JoinBetween(_, _, _, _)
JoinBetween(tokens, sep, a, b) ==
    IF a = b THEN tokens[a]
    ELSE LET mid == (a + b) \div 2
         IN  JoinBetween(tokens, sep, a, mid) \o <<sep>>
                 \o JoinBetween(tokens, sep, mid + 1, b)

Join(tokens, sep) == JoinBetween(tokens, sep, 1, Len(tokens))

\* The data tokens of a sentence of the given type that carries the given
\* fields (a record: field name -> token) and leaves every other slot empty
Contents(sentenceType, fields) ==
    LET keys == SENTENCE_CONTENTS(sentenceType) IN
    [i \in 1..Len(keys) |->
        IF keys[i] \in DOMAIN fields THEN fields[keys[i]] ELSE <<>>]

Payload(sentenceType, fields) ==
    Join(<<sentenceType>> \o Contents(sentenceType, fields), ",")

\* $<payload>*<CC> with the correct checksum
Framed(payload) == <<"$">> \o payload \o <<"*">> \o HexByte(XorOrds(payload))

\* $<payload>* : no checksum
Unchecked(payload) == <<"$">> \o payload \o <<"*">>

Line(sentenceType, fields) == Framed(Payload(sentenceType, fields))

\* Sentences fed to the adapter: headings, altitude, position, date and
\* time, speed, satellites in view and in use, with valid and invalid fixes.
TrueHeadingOnly == Line(GPRMC, [trueHeading |-> <<"7">>])
MagneticVariationOnly == Line(GPRMC, [magneticVariation |-> <<"3", ".", "5">>])

HeadingLines == {TrueHeadingOnly, MagneticVariationOnly}

FixLines ==
    { Line(GPGGA, [timestamp |-> <<"1", "2", "3", "4", "5", "6">>,
                   latitudeFloat |-> <<"1", "2", "3", "4", ".", "5">>,
                   latitudeHemisphere |-> <<"N">>,
                   fixQuality |-> <<"1">>,
                   horizontalDilutionOfPrecision |-> <<"1", ".", "5">>,
                   altitude |-> <<"5", "4", "5", ".", "4">>,
                   altitudeUnits |-> <<"M">>]),
      Line(GPRMC, [dataMode |-> <<"A">>,
                   timestamp |-> <<"1", "2", "3", "4", "5", "6">>,
                   longitudeFloat |-> <<"0", "1", "2", "3", "4", ".", "5">>,
                   longitudeHemisphere |-> <<"W">>,
                   speedInKnots |-> <<"2", ".", "5">>,
                   datestamp |-> <<"2", "3", "0", "3", "9", "4">>]) }

VoidWithHeading == Line(GPRMC, [dataMode |-> <<"V">>, trueHeading |-> <<"7">>])

InvalidFixLines ==
    { Line(GPGGA, [fixQuality |-> <<"0">>,
                   altitude |-> <<"5", "4", "5", ".", "4">>,
                   altitudeUnits |-> <<"M">>]),
      VoidWithHeading,
      Line(GPGSA, [fixType |-> <<"1">>, usedSatellitePRN_0 |-> <<"3">>]) }

SatelliteLines ==
    { Line(GPGSA, [fixType |-> <<"3">>, usedSatellitePRN_0 |-> <<"3">>]),
      Line(GPGSV, [numberOfGSVSentences |-> <<"2">>, GSVSentenceIndex |-> <<"1">>,
                   satellitePRN_0 |-> <<"3">>, signalToNoiseRatio_0 |-> <<"4", "0">>]),
      Line(GPGSV, [numberOfGSVSentences |-> <<"2">>, GSVSentenceIndex |-> <<"2">>,
                   satellitePRN_1 |-> <<"4">>, signalToNoiseRatio_1 |-> <<"3", "9">>]) }

\* A sentence whose conversion raises: a hemisphere letter that is no
\* compass point
FailingLines ==
    { Line(GPGLL, [latitudeFloat |-> <<"1", "2", "3", "4", ".", "5">>,
                   latitudeHemisphere |-> <<"X">>]) }

GoodHDT == Payload(GPHDT, [trueHeading |-> <<"7">>])

\* Lines the decoder rejects: a wrong checksum, no checksum delimiter, an
\* unknown sentence type; and one it accepts without a checksum.
RejectedLines ==
    { <<"$">> \o GoodHDT \o <<"*", "0", "0">>,
      <<"$">> \o GoodHDT,
      Framed(<<"G", "P", "X", "Y", "Z", ",", "7">>) }

\* The lines of Spec: sentences the decoder accepts
Lines ==
    HeadingLines \cup FixLines \cup InvalidFixLines \cup SatelliteLines
        \cup FailingLines

\* The lines of SpecRejecting: rejected lines among accepted ones
MixedLines ==
    RejectedLines \cup HeadingLines \cup FixLines
        \cup {VoidWithHeading, Unchecked(GoodHDT)}

\* lineReceived on every input line, decoded once
Decoded == [line \in Lines \cup MixedLines |-> lineReceived(line)]

(***************************************************************************)
(* The state machine                                                       *)
(***************************************************************************)
\* NMEAAdapter.__init__ (and an NMEAProtocol around it)
Constructed ==
    /\ state = EmptyDict
    /\ sentenceData = EmptyDict
    /\ shared = {}
    /\ sameBeacons = {}
    /\ currentSentence = None
    /\ rawLine = <<>>
    /\ op = "init"
    /\ outcome = "ok"
    /\ written = {}
    /\ calls = <<>>
    /\ fired = {}
    /\ wiped = {}
    /\ log = <<>>

\* A new NMEAAdapter, as the class is written
Init ==
    /\ Constructed
    /\ settings = [handling |-> DATESTAMP_HANDLING,
                   threshold |-> INTELLIGENT_DATE_THRESHOLD]

\* The adapter as a fixer context, at the start of a call
Context == [sd |-> sentenceData, st |-> state, sh |-> shared,
            al |-> sameBeacons, wr |-> {}, exc |-> "ok", cfg |-> settings]

CallNames(cs) == {cs[i].name : i \in 1..Len(cs)}

\* The receiver's part of lineReceived: the adapter's sentenceReceived
Deliver(sentence) ==
    \E r \in {sentenceReceived(Context, sentence)} :
    /\ currentSentence' = Some(sentence)
    /\ state' = r.c.st
    /\ sentenceData' = r.c.sd
    /\ shared' = r.c.sh
    /\ sameBeacons' = r.c.al
    /\ written' = r.c.wr
    /\ outcome' = r.c.exc
    /\ calls' = r.calls
    /\ fired' = IF r.c.st = EmptyDict THEN {}
                ELSE fired \cup CallNames(r.calls)
    /\ wiped' = (DOMAIN state) \ (DOMAIN r.c.st)

\* NMEAProtocol.lineReceived(line) with the adapter as its receiver; an
\* exception of the decoder leaves the adapter untouched.
LineReceivedOn(line, decoded) ==
    /\ rawLine' = line
    /\ op' = "lineReceived"
    /\ UNCHANGED settings
    /\ IF decoded.exc # "ok"
        THEN /\ outcome' = decoded.exc
             /\ calls' = <<>>
             /\ written' = {}
             /\ wiped' = {}
             /\ UNCHANGED <<state, sentenceData, shared, sameBeacons,
                            currentSentence, fired>>
        ELSE Deliver(decoded.sentence)

LineReceived ==
    /\ \E line \in Lines : LineReceivedOn(line, Decoded[line])
    /\ UNCHANGED log

LineReceivedOrRejected ==
    /\ \E line \in MixedLines : LineReceivedOn(line, Decoded[line])
    /\ UNCHANGED log

\* clear() without `self._state = {}`: a variant that empties the scratch
\* map only
clearSentenceDataOnly ==
    /\ sentenceData' = EmptyDict
    /\ shared' = {}
    /\ sameBeacons' = {r \in sameBeacons : \A slot \in r.slots : slot[1] = "st"}
    /\ op' = "clear"
    /\ outcome' = "ok"
    /\ written' = {}
    /\ calls' = <<>>
    /\ wiped' = {}
    /\ UNCHANGED <<state, fired, currentSentence, rawLine, settings>>

\* NMEAAdapter.clear()
clear ==
    /\ state' = EmptyDict
    /\ sentenceData' = EmptyDict
    /\ shared' = {}
    /\ sameBeacons' = {}
    /\ op' = "clear"
    /\ outcome' = "ok"
    /\ written' = {}
    /\ calls' = <<>>
    /\ fired' = {}
    /\ wiped' = DOMAIN state
    /\ UNCHANGED <<currentSentence, rawLine, settings>>

\* A call of clear() by the adapter's owner
Clear == clear /\ UNCHANGED log

Next == LineReceived \/ Clear

Spec == Init /\ [][Next]_vars

\* The adapter behind a decoder that also receives lines it rejects
SpecRejecting == Init /\ [][LineReceivedOrRejected \/ Clear]_vars

(***************************************************************************)
(* The decoder alone: the first line a new protocol receives, drawn from   *)
(* every short line over a small alphabet and from sentences of known      *)
(* types with any pattern of empty and non-empty tokens.                   *)
(***************************************************************************)
Alphabet == {"$", "*", "J", "4", "A", "a", " ", "+"}
MaxLineLen == 5
ShortLines == UNION {[1..n -> Alphabet] : n \in 0..MaxLineLen}

MaxTokens == 7
TokenValues == {<<>>, <<"7">>}
TokenSeqs == UNION {[1..n -> TokenValues] : n \in 0..MaxTokens}
TokenPayloads ==
    {Join(<<sentenceType>> \o tokens, ",") :
        sentenceType \in {GPHDT, GPGLL}, tokens \in TokenSeqs}
TokenLines ==
    {Unchecked(payload) : payload \in TokenPayloads}
        \cup {Framed(payload) : payload \in TokenPayloads}

\* The GPHDT sentence of a compass: heading 123.4 degrees True
GPHDTScenario ==
    Framed(Join(<<GPHDT, <<"1", "2", "3", ".", "4">>, <<"T">>>>, ","))

\* GPHDT sentences whose heading is written with an exponent, with a sign,
\* without a digit before the point
GPHDTNotation ==
    [token \in {<<"1", "e", "1">>, <<"+", "7", ".", "5">>, <<".", "5", "E", "+", "1">>,
                <<"2", "5", "e", "-", "1">>} |->
        Framed(Payload(GPHDT, [trueHeading |-> token]))]

DecodeFirst ==
    /\ op = "init"
    /\ \E line \in ShortLines \cup TokenLines \cup {GPHDTScenario}
                    \cup {GPHDTNotation[t] : t \in DOMAIN GPHDTNotation}
                    \* payloads whose characters cancel, the checksum signed
                    \cup {<<"$">> \o Join(<<GPHDT, <<"7">>, <<"x">>>>, ",")
                               \o <<"*", sign, "0">> : sign \in {"+", "-"}} :
           LineReceivedOn(line, lineReceived(line))
    /\ UNCHANGED log

SpecDecoder == Init /\ [][DecodeFirst]_vars

(***************************************************************************)
(* Properties of the adapter (specification Spec)                          *)
(***************************************************************************)
\* The update kinds: a callback name with its required fields
Callbacks == Range(REQUIRED_CALLBACK_FIELDS)

TimesCalled(name) == Cardinality({i \in 1..Len(calls) : calls[i].name = name})

\* C1 (freshness gate): once a kind's callback has fired, a later valid
\* sentence that writes none of the kind's required fields, and leaves them
\* unchanged in the state, does not invoke that callback again.
C1_FreshnessGate ==
    [][ (/\ op' = "lineReceived"
         /\ outcome' = "ok"
         /\ rawLine' \notin InvalidFixLines)
        => \A cb \in Callbacks :
              (/\ cb.name \in fired
               /\ Range(cb.fields) \cap written' = {}
               /\ Range(cb.fields) \subseteq DOMAIN state
               /\ Range(cb.fields) \subseteq DOMAIN state'
               /\ \A f \in Range(cb.fields) : state'[f] = state[f])
              => cb.name \notin CallNames(calls') ]_vars

\* C2 (no partial parameter set): every callback invoked gets exactly the
\* required fields of its kind, all of them present in the state, each with
\* the value the state holds.
C2_CallsCarryRequiredFields ==
    \A i \in 1..Len(calls) :
        \E cb \in Callbacks :
            /\ cb.name = calls[i].name
            /\ DOMAIN calls[i].kwargs = Range(cb.fields)
            /\ Range(cb.fields) \subseteq DOMAIN state
            /\ \A f \in Range(cb.fields) : calls[i].kwargs[f] = state[f]

\* A position callback made with both of its fields
C2_Witness ==
    \E i \in 1..Len(calls) :
        /\ calls[i].name = "positionReceived"
        /\ DOMAIN calls[i].kwargs = {"latitude", "longitude"}

\* C3 (fresh and complete fires once): when a valid sentence has written a
\* required field of a kind and the state then holds every required field
\* of the kind, the kind's callback was invoked exactly once in that call.
C3_WrittenAndCompleteFiresOnce ==
    (op = "lineReceived" /\ outcome = "ok")
    => \A cb \in Callbacks :
          (/\ Range(cb.fields) \cap written # {}
           /\ Range(cb.fields) \subseteq DOMAIN state)
          => TimesCalled(cb.name) = 1

\* The latitude arrives in a sentence of its own and completes a position
\* whose longitude an earlier sentence left in the state.
C3_Witness ==
    /\ op = "lineReceived"
    /\ outcome = "ok"
    /\ "latitude" \in written
    /\ "longitude" \notin written
    /\ TimesCalled("positionReceived") = 1

\* C4 (invalid-fix reset): after a sentence that reports fix quality "0",
\* data mode "V" or fix type "1" the state is empty.
C4_InvalidFixEmptiesState ==
    (op = "lineReceived" /\ rawLine \in InvalidFixLines) => state = EmptyDict

\* An invalid-fix sentence that wiped an aggregation in progress, the used
\* PRNs and the date and time
C4_Witness ==
    /\ op = "lineReceived"
    /\ rawLine \in InvalidFixLines
    /\ {"_partialBeaconInformation", "_usedPRNs", "_date", "_time"}
           \subseteq wiped
    /\ state = EmptyDict

\* C5 (invalid fix absorbed): a sentence that reports an invalid fix returns
\* normally, invokes no callback and leaves the adapter as clear() leaves
\* it, ready for the next sentence.
C5_InvalidFixAbsorbed ==
    (op = "lineReceived" /\ rawLine \in InvalidFixLines)
    => /\ outcome = "ok"
       /\ calls = <<>>
       /\ sentenceData = EmptyDict
       /\ shared = {}
       /\ sameBeacons = {}

\* A void GPRMC that carries a heading, received after a heading callback
\* had fired
C5_Witness ==
    /\ op = "lineReceived"
    /\ rawLine = VoidWithHeading
    /\ "heading" \in wiped
    /\ outcome = "ok"
    /\ calls = <<>>

\* C6 (decoder failures isolated): a line the decoder rejects raises the
\* decoder's exception, the receiver is not called, no callback fires and
\* state, scratch map and current sentence stay what they were.
C6_RejectedLineLeavesAdapter ==
    [][ (op' = "lineReceived" /\ rawLine' \in RejectedLines)
        => /\ outcome' \in {"InvalidChecksum", "InvalidSentence", "ValueError"}
           /\ calls' = <<>>
           /\ state' = state
           /\ sentenceData' = sentenceData
           /\ shared' = shared
           /\ sameBeacons' = sameBeacons
           /\ currentSentence' = currentSentence ]_vars

\* A line with a wrong checksum, rejected while the state holds data
C6_Witness ==
    /\ op = "lineReceived"
    /\ rawLine \in RejectedLines
    /\ outcome = "InvalidChecksum"
    /\ state # EmptyDict
    /\ calls = <<>>

\* The state after TrueHeadingOnly on a fresh adapter, and after
\* MagneticVariationOnly next
CourseOnly ==
    [heading |-> [angle |-> Some(7 * Scale), variation |-> None]]
CourseAndVariation ==
    [heading |-> [angle |-> Some(7 * Scale),
                  variation |-> Some((35 * Scale) \div 10)]]

Fresh == state = EmptyDict /\ sentenceData = EmptyDict
AfterTrueHeadingOnly ==
    /\ op = "lineReceived"
    /\ rawLine = TrueHeadingOnly
    /\ outcome = "ok"
    /\ state = CourseOnly
    /\ sentenceData = CourseOnly

\* C10 as claimed (stateful accumulation): TrueHeadingOnly on a fresh adapter
\* does not invoke the heading callback; MagneticVariationOnly next leaves
\* one Heading with course and variation and invokes the heading callback.
C10_HeadingFiresOnlyAfterSecond ==
    [][ /\ (Fresh /\ op' = "lineReceived" /\ rawLine' = TrueHeadingOnly)
           => "headingReceived" \notin CallNames(calls')
        /\ (AfterTrueHeadingOnly /\ op' = "lineReceived"
                /\ rawLine' = MagneticVariationOnly)
           => /\ state' = CourseAndVariation
              /\ "headingReceived" \in CallNames(calls') ]_vars

\* C10 amended: the heading callback is invoked once during each of the two
\* sentences, first with the course only, then with the one Heading that
\* holds course and variation.
C10_HeadingAccumulates ==
    [][ /\ (Fresh /\ op' = "lineReceived" /\ rawLine' = TrueHeadingOnly)
           => /\ state' = CourseOnly
              /\ calls' = << [name |-> "headingReceived", kwargs |-> CourseOnly] >>
        /\ (AfterTrueHeadingOnly /\ op' = "lineReceived"
                /\ rawLine' = MagneticVariationOnly)
           => /\ state' = CourseAndVariation
              /\ calls' = << [name |-> "headingReceived",
                              kwargs |-> CourseAndVariation] >> ]_vars

\* The second sentence has been folded
C10_Witness ==
    /\ op = "lineReceived"
    /\ rawLine = MagneticVariationOnly
    /\ state = CourseAndVariation
    /\ TimesCalled("headingReceived") = 1

(***************************************************************************)
(* Properties of the decoder (specification SpecDecoder)                   *)
(***************************************************************************)
\* A reference for the checksum that shares nothing with XorOrds: bit k of
\* the XOR of s[a..b] is the parity of the characters that have bit k set.
RefBit(c, k) == (Ord(c) \div (2 ^ k)) % 2
RefParity(s, a, b, k) == Cardinality({i \in a..b : RefBit(s[i], k) = 1}) % 2
RefXor(s, a, b) ==
    RefParity(s, a, b, 0) + 2 * RefParity(s, a, b, 1)
        + 4 * RefParity(s, a, b, 2) + 8 * RefParity(s, a, b, 3)
        + 16 * RefParity(s, a, b, 4) + 32 * RefParity(s, a, b, 5)
        + 64 * RefParity(s, a, b, 6) + 128 * RefParity(s, a, b, 7)

\* A reference for hexadecimal digits, either case
RefHexUpper == <<"0", "1", "2", "3", "4", "5", "6", "7", "8", "9",
                 "A", "B", "C", "D", "E", "F">>
RefHexLower == <<"0", "1", "2", "3", "4", "5", "6", "7", "8", "9",
                 "a", "b", "c", "d", "e", "f">>
IsRefHex(c) == \E i \in 1..Len(RefHexUpper) : c \in {RefHexUpper[i], RefHexLower[i]}
RefHex(c) ==
    (CHOOSE i \in 1..Len(RefHexUpper) : c \in {RefHexUpper[i], RefHexLower[i]}) - 1

\* $<payload>*<CC> with two hexadecimal digits CC
ChecksumForm(s) ==
    /\ Len(s) >= 4
    /\ s[1] = "$"
    /\ s[Len(s) - 2] = "*"
    /\ IsRefHex(s[Len(s) - 1])
    /\ IsRefHex(s[Len(s)])

\* The decoder went past the checksum and the framing: the receiver got a
\* sentence, or the sentence type was unknown.
Accepted == currentSentence # None \/ outcome = "ValueError"

\* C7 (checksum validation): a line $<payload>*<CC> is rejected with
\* InvalidChecksum exactly when the XOR of the payload's characters differs
\* from CC read as hexadecimal in either case, and is accepted when they
\* are equal.
C7_ChecksumDecides ==
    (op = "lineReceived" /\ ChecksumForm(rawLine))
    => LET n == Len(rawLine)
           declared == 16 * RefHex(rawLine[n - 1]) + RefHex(rawLine[n])
           computed == RefXor(rawLine, 2, n - 3)
       IN  IF computed = declared THEN Accepted
           ELSE outcome = "InvalidChecksum"

NoOuterBlanks(s) == s = <<>> \/ (s[1] # " " /\ s[Len(s)] # " ")

\* C8 (framing): a line is split only when `*` is its third-from-last or
\* its last character; with `*` last it is accepted without a checksum;
\* every other line, however short, fails with InvalidSentence and no
\* sentence reaches the receiver.
C8_FramingDecides ==
    (op = "lineReceived" /\ NoOuterBlanks(rawLine))
    => LET n == Len(rawLine)
           starThird == n >= 3 /\ rawLine[n - 2] = "*"
           starLast == n >= 1 /\ rawLine[n] = "*"
       IN  /\ (currentSentence # None) => (starThird \/ starLast)
           /\ (starLast /\ ~starThird) => Accepted
           /\ (~starThird /\ ~starLast)
              => (outcome = "InvalidSentence" /\ currentSentence = None)

\* The fields a raw line gives, read off its commas: the j-th comma of the
\* payload starts the j-th token, which is non-empty when the next
\* character is still payload and no comma.
PayloadEnd(s) ==
    IF Len(s) >= 3 /\ s[Len(s) - 2] = "*" THEN Len(s) - 3 ELSE Len(s) - 1
Commas(s) == {i \in 2..PayloadEnd(s) : s[i] = ","}
Rank(s, p) == Cardinality({q \in Commas(s) : q <= p})
RawType(s) ==
    LET stop == IF Commas(s) = {} THEN PayloadEnd(s) + 1
                ELSE CHOOSE p \in Commas(s) : Rank(s, p) = 1
    IN  SubSeq(s, 2, stop - 1)
ExpectedPresent(s) ==
    LET keys == SENTENCE_CONTENTS(RawType(s)) IN
    {"type"} \cup
        {keys[Rank(s, p)] :
            p \in {q \in Commas(s) : /\ Rank(s, q) <= Len(keys)
                                     /\ q < PayloadEnd(s)
                                     /\ s[q + 1] # ","}}

\* C9 (sparse sentence): the sentence of a decoded line has exactly the type
\* tag and the schema fields whose token exists and is non-empty, and no
\* field of it is empty.
C9_PresentFieldsAreNonEmptyTokens ==
    (op = "lineReceived" /\ currentSentence # None)
    => LET sentence == The(currentSentence) IN
       /\ sentence["type"] = RawType(rawLine)
       /\ DOMAIN sentence = ExpectedPresent(rawLine)
       /\ \A k \in DOMAIN sentence : sentence[k] # <<>>

\* $GPGLL,,7* : an empty first token, a second token, four slots without
\* a token
C9_Witness ==
    /\ op = "lineReceived"
    /\ rawLine = Unchecked(Join(<<GPGLL, <<>>, <<"7">>>>, ","))
    /\ currentSentence # None
    /\ DOMAIN The(currentSentence) = {"type", "latitudeHemisphere"}

(***************************************************************************)
(* Recorded runs: an adapter that receives at most MaxRun calls, each      *)
(* written to `log` with its outcome and the callbacks it made, so that a  *)
(* property of a sequence of sentences is a property of the log.           *)
(***************************************************************************)
MaxRun == 4

\* The numbering of a GPGSV sentence: `index` of `total`
GSVFields(total, index) ==
    [numberOfGSVSentences |-> <<total>>, GSVSentenceIndex |-> <<index>>]

\* The sentences of the recorded runs, by name
Sentences ==
    [ \* a group of three GPGSV sentences and a group of one
      GSV_1of3 |->
        Line(GPGSV, GSVFields("3", "1") @@
            [satellitePRN_0 |-> <<"3">>, signalToNoiseRatio_0 |-> <<"4", "0">>,
             satellitePRN_2 |-> <<"6">>, signalToNoiseRatio_2 |-> <<"4", "0">>]),
      GSV_2of3 |->
        Line(GPGSV, GSVFields("3", "2") @@
            [satellitePRN_1 |-> <<"4">>, signalToNoiseRatio_1 |-> <<"4", "0">>]),
      GSV_3of3 |->
        Line(GPGSV, GSVFields("3", "3") @@
            [satellitePRN_3 |-> <<"5">>, signalToNoiseRatio_3 |-> <<"4", "0">>]),
      GSV_1of1 |->
        Line(GPGSV, GSVFields("1", "1") @@
            [satellitePRN_0 |-> <<"8">>, signalToNoiseRatio_0 |-> <<"4", "0">>]),
      \* GPGSA with a 3D fix and the used PRNs {3}, {4, 5} and {}
      GSA_3 |->
        Line(GPGSA, [fixType |-> <<"3">>, usedSatellitePRN_0 |-> <<"3">>]),
      GSA_45 |->
        Line(GPGSA, [fixType |-> <<"3">>, usedSatellitePRN_0 |-> <<"4">>,
                     usedSatellitePRN_5 |-> <<"5">>]),
      GSA_None |->
        Line(GPGSA, [fixType |-> <<"3">>]),
      \* a date alone, times of day alone, both, and both without a fix
      RMC_Date |->
        Line(GPRMC, [dataMode |-> <<"A">>,
                     datestamp |-> <<"2", "3", "0", "3", "9", "4">>]),
      GGA_Time |->
        Line(GPGGA, [fixQuality |-> <<"1">>,
                     timestamp |-> <<"1", "2", "3", "4", "5", "6">>]),
      GLL_Midnight |->
        Line(GPGLL, [dataMode |-> <<"A">>,
                     timestamp |-> <<"0", "0", "0", "0", "0", "0">>]),
      RMC_Both |->
        Line(GPRMC, [dataMode |-> <<"A">>,
                     timestamp |-> <<"2", "3", "5", "9", "5", "9">>,
                     datestamp |-> <<"0", "1", "0", "1", "0", "0">>]),
      RMC_Void |->
        Line(GPRMC, [dataMode |-> <<"V">>,
                     timestamp |-> <<"1", "2", "3", "4", "5", "6">>,
                     datestamp |-> <<"2", "3", "0", "3", "9", "4">>]),
      \* a heading; a latitude with a letter that is no hemisphere, an
      \* altitude in a unit without a converter
      HDT_7 |-> Framed(GoodHDT),
      GLL_BadHemisphere |->
        Line(GPGLL, [latitudeFloat |-> <<"1", "2", "3", "4", ".", "5">>,
                     latitudeHemisphere |-> <<"X">>,
                     dataMode |-> <<"A">>]),
      GGA_BadUnit |->
        Line(GPGGA, [fixQuality |-> <<"1">>,
                     altitude |-> <<"5", "4", "5", ".", "4">>,
                     altitudeUnits |-> <<"F">>]) ]

\* The lines of a family of sentences
LinesOf(family) == {family[x] : x \in DOMAIN family}

\* The two-digit years of a datestamp, and a GPRMC sentence dated the first
\* of January of the year y
Years == 0..99
DatestampLine ==
    [y \in Years |->
        Line(GPRMC, [dataMode |-> <<"A">>,
                     datestamp |-> <<"0", "1", "0", "1", Digits[(y \div 10) + 1],
                                     Digits[(y % 10) + 1]>>])]

MisconfiguredLines == {Sentences.GLL_BadHemisphere, Sentences.GGA_BadUnit}

\* Sentences that set attributes of the composite objects: a GPGSA with an
\* HDOP, and two whose conversion fails after an attribute was set, a GPRMC
\* with a magnetic variation and a direction that is no hemisphere, a GPGSA
\* with an HDOP and a VDOP that is no number
CompositeSentences ==
    [ GSA_HDOP |->
        Line(GPGSA, [fixType |-> <<"3">>,
                     horizontalDilutionOfPrecision |-> <<"2", ".", "0">>]),
      RMC_BadDirection |->
        Line(GPRMC, [dataMode |-> <<"A">>,
                     magneticVariation |-> <<"1", ".", "5">>,
                     magneticVariationDirection |-> <<"X">>]),
      GSA_BadVDOP |->
        Line(GPGSA, [fixType |-> <<"3">>,
                     horizontalDilutionOfPrecision |-> <<"1", ".", "0">>,
                     verticalDilutionOfPrecision |-> <<"x">>]) ]

\* GPGLL sentences with a latitude and a longitude, each with its
\* hemisphere letter
PositionLine ==
    [latitude \in {<<"1", "2", "3", "4", ".", "5">>, <<"4", "8", "0", "7", ".", "0">>},
     north \in {<<"N">>, <<"S">>},
     longitude \in {<<"0", "1", "2", "3", "4", ".", "5">>},
     east \in {<<"E">>, <<"W">>} |->
        Line(GPGLL, [latitudeFloat |-> latitude, latitudeHemisphere |-> north,
                     longitudeFloat |-> longitude, longitudeHemisphere |-> east,
                     dataMode |-> <<"A">>])]

\* GPRMC sentences with a magnetic variation and its direction letter
VariationLine ==
    [variation \in {<<"1", ".", "5">>, <<"2", ".", "5">>},
     direction \in {<<"E">>, <<"W">>} |->
        Line(GPRMC, [dataMode |-> <<"A">>,
                     magneticVariation |-> variation,
                     magneticVariationDirection |-> direction])]

\* GPRMC sentences dated the first of January 2000 with a time of day:
\* midnight, a second past it, noon
StampedLine ==
    [hour \in {0, 12}, second \in {0, 1} |->
        Line(GPRMC, [dataMode |-> <<"A">>,
                     timestamp |-> <<Digits[(hour \div 10) + 1],
                                     Digits[(hour % 10) + 1], "0", "0", "0",
                                     Digits[second + 1]>>,
                     datestamp |-> <<"0", "1", "0", "1", "0", "0">>])]

\* GPGSV sentences 1 of 2 whose slot i is complete (PRN i + 1, SNR 40),
\* lacks the PRN or lacks the SNR
SlotFields(index, kind) ==
    (IF kind = "noPRN" THEN EmptyDict
     ELSE ("satellitePRN_" \o IndexName[index + 1]) :> <<Digits[index + 2]>>)
    @@ (IF kind = "noSNR" THEN EmptyDict
        ELSE ("signalToNoiseRatio_" \o IndexName[index + 1]) :> <<"4", "0">>)
SlotLine ==
    [kinds \in [0..(GSVSlots - 1) -> {"complete", "noPRN", "noSNR"}] |->
        Line(GPGSV, GSVFields("2", "1") @@ SlotFields(0, kinds[0])
                    @@ SlotFields(1, kinds[1]) @@ SlotFields(2, kinds[2])
                    @@ SlotFields(3, kinds[3]))]

GSVLines ==
    {Sentences.GSV_1of3, Sentences.GSV_2of3, Sentences.GSV_3of3,
     Sentences.GSV_1of1}
GSALines == {Sentences.GSA_3, Sentences.GSA_45, Sentences.GSA_None}

ClockLines ==
    {Sentences.RMC_Date, Sentences.GGA_Time, Sentences.GLL_Midnight,
     Sentences.RMC_Both, Sentences.RMC_Void}

\* lineReceived(line) for one of `lines`, recorded
Receive(lines) ==
    /\ Len(log) < MaxRun
    /\ \E line \in lines :
        /\ LineReceivedOn(line, lineReceived(line))
        /\ log' = Append(log, [op |-> "lineReceived", line |-> line,
                               outcome |-> outcome', calls |-> calls'])

\* clear(), recorded
ClearRecorded ==
    /\ Len(log) < MaxRun
    /\ clear
    /\ log' = Append(log, [op |-> "clear", line |-> <<>>,
                           outcome |-> "ok", calls |-> <<>>])

\* A receiver of satellite sentences
ReceiveSatellites == Receive(GSVLines \cup GSALines)

SpecSatellites == Init /\ [][ReceiveSatellites \/ ClearRecorded]_vars

\* A receiver of sentences with dates and times of day
ReceiveClock == Receive(ClockLines)

SpecClock == Init /\ [][ReceiveClock \/ ClearRecorded]_vars

\* A new adapter of a subclass that sets DATESTAMP_HANDLING and
\* INTELLIGENT_DATE_THRESHOLD: the three methods and a value that names
\* none, and every threshold of two digits
Policies ==
    {INTELLIGENT_DATESTAMPS, DATESTAMPS_FROM_20XX, DATESTAMPS_FROM_19XX,
     DATESTAMPS_FROM_19XX + 1}
InitAnySettings ==
    /\ Constructed
    /\ settings \in [handling : Policies, threshold : Years]

\* Such an adapter receives a heading first, or not, and then one dated
\* sentence or one it cannot convert
ReceiveConfigured ==
    /\ log = <<>> \/ (Len(log) = 1 /\ log[1].line = Sentences.HDT_7)
    /\ Receive(LinesOf(DatestampLine) \cup MisconfiguredLines
                   \cup (IF log = <<>> THEN {Sentences.HDT_7} ELSE {}))

SpecConfigured == InitAnySettings /\ [][ReceiveConfigured]_vars

\* A receiver of one or two sentences with positions, magnetic variations
\* or satellite slots
ReceiveUpToTwo ==
    /\ Len(log) <= 1
    /\ Receive(LinesOf(PositionLine) \cup LinesOf(VariationLine)
                   \cup LinesOf(SlotLine))

SpecUpToTwo == Init /\ [][ReceiveUpToTwo]_vars

\* A receiver of sentences for the composite objects, some of which fail
\* during conversion
ReceiveFailing ==
    Receive({Sentences.HDT_7} \cup LinesOf(CompositeSentences)
                \cup MisconfiguredLines)

SpecFailing == Init /\ [][ReceiveFailing]_vars

\* A receiver of sentences with a date, a time of day, or both
ReceiveStamped ==
    Receive({Sentences.RMC_Date, Sentences.GGA_Time} \cup LinesOf(StampedLine))

SpecStamped == Init /\ [][ReceiveStamped]_vars

(***************************************************************************)
(* Claims about satellite sentences, checked under SpecSatellites          *)
(***************************************************************************)
\* The GPGSV groups of the recorded runs, in index order, and the PRNs
\* each sentence contributes
Groups ==
    { <<Sentences.GSV_1of3, Sentences.GSV_2of3, Sentences.GSV_3of3>>,
      <<Sentences.GSV_1of1>> }
PRNsOf(line) ==
    IF line = Sentences.GSV_1of3 THEN {3, 6}
    ELSE IF line = Sentences.GSV_2of3 THEN {4}
    ELSE IF line = Sentences.GSV_3of3 THEN {5}
    ELSE IF line = Sentences.GSV_1of1 THEN {8}
    ELSE {}

\* The used PRNs a GPGSA sentence of the recorded runs names
UsedPRNsOf(line) ==
    IF line = Sentences.GSA_3 THEN {3}
    ELSE IF line = Sentences.GSA_45 THEN {4, 5}
    ELSE {}

\* The beaconInformationReceived calls of a recorded call
BeaconCalls(entry) ==
    {i \in 1..Len(entry.calls) :
        entry.calls[i].name = "beaconInformationReceived"}

\* The satellites a recorded call delivered
Delivered(entry) ==
    UNION {entry.calls[i].kwargs["beaconInformation"] : i \in BeaconCalls(entry)}

Identifiers(beacons) == {b.identifier : b \in beacons}

\* The log holds the sentences of `group`, in order, from position i on
GroupAt(group, i) ==
    /\ i + Len(group) - 1 <= Len(log)
    /\ \A k \in 1..Len(group) :
        /\ log[i + k - 1].op = "lineReceived"
        /\ log[i + k - 1].line = group[k]

RECURSIVE ContributedFrom(_, _)
ContributedFrom(group, k) ==
    IF k > Len(group) THEN {}
    ELSE PRNsOf(group[k]) \cup ContributedFrom(group, k + 1)

\* C11: when the N sentences of a GPGSV group are processed in index order,
\* beaconInformationReceived fires exactly once over those N calls, during
\* the N-th and never earlier, and delivers the union of the satellites the
\* N sentences contribute.
C11_GroupDeliversOnceAtEnd ==
    \A group \in Groups : \A i \in 1..Len(log) :
        GroupAt(group, i) =>
            /\ \A k \in 1..(Len(group) - 1) : BeaconCalls(log[i + k - 1]) = {}
            /\ Cardinality(BeaconCalls(log[i + Len(group) - 1])) = 1
            /\ Identifiers(Delivered(log[i + Len(group) - 1]))
                   = ContributedFrom(group, 1)

\* The GPGSA sentences received up to call j and after the last clear()
GSAUpTo(j) ==
    {g \in 1..j :
        /\ log[g].op = "lineReceived"
        /\ log[g].line \in GSALines
        /\ \A k \in g..j : log[k].op # "clear"}

Max(S) == CHOOSE x \in S : \A y \in S : y <= x

\* C12: every satellite of a delivered beaconInformation has its used flag
\* equal to the membership of its PRN in the used-PRN set of the GPGSA that
\* applies: the latest one received, the delivering sentence's own set
\* included.
C12_UsedFlagsFollowGSA ==
    \A j \in 1..Len(log) :
        GSAUpTo(j) # {} =>
            \A b \in Delivered(log[j]) :
                b.isUsed
                    = Some(b.identifier \in UsedPRNsOf(log[Max(GSAUpTo(j))].line))

(***************************************************************************)
(* Claims about clear(), checked under SpecSatellites                      *)
(***************************************************************************)
\* C13: after clear() the state and the scratch map are empty, after a
\* second clear() as after the first, and clear() returns without invoking
\* a callback.
C13_ClearEmptiesAndIsSilent ==
    op = "clear" =>
        /\ state = EmptyDict
        /\ sentenceData = EmptyDict
        /\ outcome = "ok"
        /\ calls = <<>>

\* clear() twice in a row on an adapter that held satellites and used PRNs
C13_Witness ==
    /\ Len(log) = 4
    /\ log[1].line = Sentences.GSA_3
    /\ log[2].line = Sentences.GSV_1of3
    /\ log[3].op = "clear" /\ wiped = {}
    /\ log[4].op = "clear"
    /\ state = EmptyDict /\ sentenceData = EmptyDict

(***************************************************************************)
(* The GPHDT scenario, checked under SpecDecoder                           *)
(***************************************************************************)
\* GPHDT lines with a correct checksum, the true heading 7 and any tokens
\* after it
HDTLinesWith7 ==
    {Framed(Join(<<GPHDT>> \o tokens, ",")) :
        tokens \in {t \in TokenSeqs : Len(t) >= 1 /\ t[1] = <<"7">>}}

HDTCases ==
    { [lines |-> HDTLinesWith7, course |-> 7 * Scale],
      [lines |-> {GPHDTScenario}, course |-> (1234 * Scale) \div 10],
      [lines |-> {GPHDTNotation[<<"1", "e", "1">>]}, course |-> 10 * Scale],
      [lines |-> {GPHDTNotation[<<"+", "7", ".", "5">>]}, course |-> (75 * Scale) \div 10],
      [lines |-> {GPHDTNotation[<<".", "5", "E", "+", "1">>]}, course |-> 5 * Scale],
      [lines |-> {GPHDTNotation[<<"2", "5", "e", "-", "1">>]}, course |-> (25 * Scale) \div 10] }

HeadingOf(course) == [heading |-> [angle |-> Some(course), variation |-> None]]

\* C14: on a fresh adapter a GPHDT line with a correct checksum and a
\* true-heading token (whatever follows it, the trailing T included) makes
\* exactly one callback, headingReceived, whose heading has the token's value
\* as course, and leaves a state that holds heading and nothing else.
C14_GPHDTFiresHeadingOnly ==
    \A case \in HDTCases :
        (op = "lineReceived" /\ rawLine \in case.lines) =>
            /\ outcome = "ok"
            /\ calls = << [name |-> "headingReceived",
                           kwargs |-> HeadingOf(case.course)] >>
            /\ state = HeadingOf(case.course)

C14_Witness ==
    /\ op = "lineReceived"
    /\ rawLine = GPHDTScenario
    /\ Len(calls) = 1
    /\ DOMAIN state = {"heading"}
    /\ state["heading"].angle = Some((1234 * Scale) \div 10)

(***************************************************************************)
(* Claims about dates and times of day, checked under SpecClock            *)
(***************************************************************************)
\* The date and the time of day the sentences of SpecClock name
DateOf(line) ==
    IF line = Sentences.RMC_Both THEN [year |-> 2000, month |-> 1, day |-> 1]
    ELSE [year |-> 1994, month |-> 3, day |-> 23]
TimeOf(line) ==
    IF line = Sentences.RMC_Both THEN [hour |-> 23, minute |-> 59, second |-> 59]
    ELSE IF line = Sentences.GLL_Midnight
        THEN [hour |-> 0, minute |-> 0, second |-> 0]
    ELSE [hour |-> 12, minute |-> 34, second |-> 56]

DateOnlyLines == {Sentences.RMC_Date}
TimeOnlyLines == {Sentences.GGA_Time, Sentences.GLL_Midnight}

\* The call just made is lineReceived(line) and invoked timeReceived once,
\* with the value `time`, which the state holds too
TimeDelivered(time) ==
    /\ outcome' = "ok"
    /\ "time" \in DOMAIN state' /\ state'["time"] = time
    /\ \E i \in 1..Len(calls') :
        /\ calls'[i] = [name |-> "timeReceived", kwargs |-> [time |-> time]]
        /\ \A k \in 1..Len(calls') :
               calls'[k].name = "timeReceived" => k = i

\* C15: a valid sentence that supplies only a timestamp while the state
\* carries a date, or only a datestamp while the state carries a time of
\* day, puts the combination of the fresh value with the carried one under
\* `time` and fires timeReceived with it.
C15_FreshPartCombinesWithCarried ==
    [][ /\ (op' = "lineReceived" /\ rawLine' \in TimeOnlyLines
              /\ "_date" \in DOMAIN state)
            => TimeDelivered([date |-> state["_date"], time |-> TimeOf(rawLine')])
        /\ (op' = "lineReceived" /\ rawLine' \in DateOnlyLines
              /\ "_time" \in DOMAIN state)
            => TimeDelivered([date |-> DateOf(rawLine'), time |-> state["_time"]])
      ]_vars

\* The calls since the last reset (a clear() or a sentence without a fix),
\* and those among them whose sentence has a datestamp, a timestamp
SinceReset ==
    {j \in 1..Len(log) :
        \A k \in j..Len(log) :
            log[k].op = "lineReceived" /\ log[k].line # Sentences.RMC_Void}
DatesSinceReset ==
    {j \in SinceReset : log[j].line \in {Sentences.RMC_Date, Sentences.RMC_Both}}
TimesSinceReset ==
    {j \in SinceReset :
        log[j].line \in {Sentences.GGA_Time, Sentences.GLL_Midnight,
                         Sentences.RMC_Both}}

\* C16: the state holds `time`, or timeReceived was just called, only if a
\* datestamp and a timestamp were both decoded since the last reset.
C16_TimeNeedsDateAndTimeOfDay ==
    ("time" \in DOMAIN state \/ "timeReceived" \in CallNames(calls)) =>
        (DatesSinceReset # {} /\ TimesSinceReset # {})

\* A date from one sentence and a time of day from a later one, after a
\* reset that dropped an earlier combination
C16_Witness ==
    /\ Len(log) = 4
    /\ log[1].line = Sentences.RMC_Both /\ log[2].line = Sentences.RMC_Void
    /\ log[3].line = Sentences.RMC_Date /\ log[4].line = Sentences.GGA_Time
    /\ "time" \in DOMAIN state
    /\ "timeReceived" \in CallNames(calls)

(***************************************************************************)
(* Claims about the adapter's settings and conversions, checked under      *)
(* SpecConfigured                                                          *)
(***************************************************************************)
KnownPolicies ==
    {INTELLIGENT_DATESTAMPS, DATESTAMPS_FROM_20XX, DATESTAMPS_FROM_19XX}

\* C17: a sentence with a hemisphere letter outside N, E, S, W, with a unit
\* that has no converter, or with a datestamp while the datestamp policy
\* names no known method, makes the call raise an error: the state is not
\* reset (it keeps its keys) and no callback is invoked.
C17_ConversionErrorsAreRaised ==
    [][ (/\ op' = "lineReceived"
         /\ \/ rawLine' \in MisconfiguredLines
            \/ /\ rawLine' \in LinesOf(DatestampLine)
               /\ settings.handling \notin KnownPolicies)
        => /\ outcome' \in {"ValueError", "KeyError"}
           /\ calls' = <<>>
           /\ DOMAIN state' = DOMAIN state
      ]_vars

\* Each kind of error on an adapter whose state holds a heading
C17_Witness ==
    /\ Len(log) = 2 /\ log[1].line = Sentences.HDT_7
    /\ \/ rawLine = Sentences.GLL_BadHemisphere /\ outcome = "ValueError"
       \/ rawLine = Sentences.GGA_BadUnit /\ outcome = "KeyError"
       \/ rawLine \in LinesOf(DatestampLine) /\ outcome = "ValueError"
    /\ DOMAIN state = {"heading"}
    /\ calls = <<>>

\* The sentence just received was decoded to the first of January of `year`
DatedJanuaryFirst(year) ==
    /\ outcome = "ok"
    /\ "_date" \in DOMAIN state
    /\ state["_date"] = [year |-> year, month |-> 1, day |-> 1]

\* C18: for every two-digit year y and threshold T in 0..99 the decoded year
\* is 1900 + y under the intelligent policy when y > T and 2000 + y when
\* y <= T, 1900 + y under the force-19xx policy, 2000 + y under the
\* force-20xx policy; any other policy value is an error.
C18_CenturyResolution ==
    \A y \in Years :
        (op = "lineReceived" /\ rawLine = DatestampLine[y]) =>
            /\ (settings.handling = INTELLIGENT_DATESTAMPS /\ y > settings.threshold)
                   => DatedJanuaryFirst(1900 + y)
            /\ (settings.handling = INTELLIGENT_DATESTAMPS /\ y <= settings.threshold)
                   => DatedJanuaryFirst(2000 + y)
            /\ settings.handling = DATESTAMPS_FROM_19XX
                   => DatedJanuaryFirst(1900 + y)
            /\ settings.handling = DATESTAMPS_FROM_20XX
                   => DatedJanuaryFirst(2000 + y)
            /\ settings.handling \notin KnownPolicies
                   => (outcome = "ValueError" /\ "_date" \notin DOMAIN state)

\* The year equal to the threshold, under the intelligent policy
C18_Witness ==
    /\ op = "lineReceived"
    /\ settings = [handling |-> INTELLIGENT_DATESTAMPS, threshold |-> 37]
    /\ rawLine = DatestampLine[37]
    /\ state["_date"].year = 2037

(***************************************************************************)
(* Claims about positions, magnetic variations and satellite slots,        *)
(* checked under SpecUpToTwo                                               *)
(***************************************************************************)
\* A coordinate token ddmm.m (or dddmm.m) in sixtieths of a degree, times
\* Scale
Magnitude(token) ==
    IF token = <<"1", "2", "3", "4", ".", "5">> THEN 12 * 60 * Scale + (345 * Scale) \div 10
    ELSE IF token = <<"4", "8", "0", "7", ".", "0">> THEN 48 * 60 * Scale + 7 * Scale
    ELSE 12 * 60 * Scale + (345 * Scale) \div 10     \* 01234.5

SignOf(letter) == IF letter \in {<<"N">>, <<"E">>} THEN 1 ELSE -1

\* A magnetic variation token d.d in degrees, times Scale
VariationMagnitude(token) ==
    IF token = <<"1", ".", "5">> THEN (15 * Scale) \div 10
    ELSE (25 * Scale) \div 10     \* 2.5

\* C19: when a valid sentence has a magnitude (latitudeFloat,
\* longitudeFloat, magneticVariation) and its hemisphere or direction
\* letter, the value folded into the state (the latitude, the longitude,
\* the variation of the heading) is this sentence's magnitude with the sign
\* of the letter: +1 for N and E, -1 for S and W.
C19_MagnitudeThenSign ==
    /\ \A p \in DOMAIN PositionLine :
           (op = "lineReceived" /\ rawLine = PositionLine[p]) =>
               /\ outcome = "ok"
               /\ {"latitude", "longitude"} \subseteq DOMAIN state
               /\ state["latitude"] = [angle60 |-> SignOf(p[2]) * Magnitude(p[1]),
                                       angleType |-> "latitude"]
               /\ state["longitude"] = [angle60 |-> SignOf(p[4]) * Magnitude(p[3]),
                                        angleType |-> "longitude"]
    /\ \A v \in DOMAIN VariationLine :
           (op = "lineReceived" /\ rawLine = VariationLine[v]) =>
               /\ outcome = "ok"
               /\ "heading" \in DOMAIN state
               /\ state["heading"].variation
                      = Some(SignOf(v[2]) * VariationMagnitude(v[1]))
               /\ sentenceData["heading"] = state["heading"]
               /\ "headingReceived" \in CallNames(calls)

\* A southern, western position after a western variation: both are in the
\* state with the sign -1
C19_Witness ==
    /\ Len(log) = 2
    /\ log[1].line = VariationLine[<<"2", ".", "5">>, <<"W">>]
    /\ state["heading"].variation = Some(-VariationMagnitude(<<"2", ".", "5">>))
    /\ rawLine = PositionLine[<<"1", "2", "3", "4", ".", "5">>, <<"S">>,
                              <<"0", "1", "2", "3", "4", ".", "5">>, <<"W">>]
    /\ state["latitude"].angle60 < 0
    /\ state["longitude"].angle60 < 0
    /\ "positionReceived" \in CallNames(calls)

\* The PRNs of the complete slots
CompleteSlots(kinds) == {index + 1 : index \in {i \in DOMAIN kinds : kinds[i] = "complete"}}

\* Each choice of the slots with the line carrying it and the PRNs it should add
SlotCases ==
    {[line |-> SlotLine[kinds], complete |-> CompleteSlots(kinds)] : kinds \in DOMAIN SlotLine}

\* C20: for every choice of the slots of a GPGSV sentence that lack a PRN or
\* an SNR, the partial beacon set holds exactly the satellites of the other
\* slots (the sentence being the first GPGSV the adapter receives).
C20_IncompleteSlotsAreSkipped ==
    \A case \in SlotCases :
        (/\ op = "lineReceived" /\ rawLine = case.line
         /\ Len(log) = 1 \/ log[1].line \in LinesOf(PositionLine)) =>
            /\ outcome = "ok"
            /\ "_partialBeaconInformation" \in DOMAIN state
            /\ Identifiers(state["_partialBeaconInformation"]) = case.complete
            /\ Cardinality(state["_partialBeaconInformation"]) = Cardinality(case.complete)

\* Slots 0 and 2 complete after a slot without SNR, before one without PRN
C20_Witness ==
    /\ Len(log) = 1
    /\ rawLine = SlotLine[[i \in 0..(GSVSlots - 1) |->
                              IF i = 1 THEN "noSNR"
                              ELSE IF i = 3 THEN "noPRN" ELSE "complete"]]
    /\ Identifiers(state["_partialBeaconInformation"]) = {1, 3}

(***************************************************************************)
(* Claims about the accumulator of a GPGSV group, checked under            *)
(* SpecSatellites                                                          *)
(***************************************************************************)
\* The GPGSV sentences whose index equals the count of their group
LastOfGroupLines == {Sentences.GSV_3of3, Sentences.GSV_1of1}

\* The step leaves `key` of the state as it was: absent, or present with the
\* same value
KeptByStep(key) ==
    /\ (key \in DOMAIN state') = (key \in DOMAIN state)
    /\ key \in DOMAIN state => state'[key] = state[key]

\* Every beaconInformationReceived call of the step delivers the finished
\* set the state held before it (the repeated delivery of C1), none a set
\* promoted by the step
NothingNewDelivered ==
    \A i \in 1..Len(calls') :
        calls'[i].name = "beaconInformationReceived" =>
            /\ "beaconInformation" \in DOMAIN state
            /\ calls'[i].kwargs["beaconInformation"] = state["beaconInformation"]

\* C21: the accumulated beacon set is promoted to beaconInformation, and
\* delivered to beaconInformationReceived, only while a GPGSV sentence whose
\* index equals the count of its group is processed; a sentence of another
\* type leaves the accumulator in the state as it was.
C21_PromotionOnlyOnLastGSV ==
    [][ (op' = "lineReceived" /\ outcome' = "ok") =>
            /\ rawLine' \notin LastOfGroupLines =>
                   (KeptByStep("beaconInformation") /\ NothingNewDelivered)
            /\ rawLine' \in GSALines => KeptByStep("_partialBeaconInformation")
      ]_vars

\* The state keys a sentence of SpecSatellites derives
DerivedBy(line) ==
    IF line \in GSVLines THEN {"_partialBeaconInformation", "beaconInformation"}
    ELSE IF line \in GSALines THEN {"_usedPRNs"}
    ELSE {}

\* C22: after a valid sentence was processed, every key of the state that
\* the sentence did not derive is still there with the value it had, except
\* the accumulator when the sentence is the last GPGSV of its group.
C22_FoldKeepsOtherKeys ==
    [][ (op' = "lineReceived" /\ outcome' = "ok") =>
            \A key \in DOMAIN state \ DerivedBy(rawLine') :
                \/ key = "_partialBeaconInformation" /\ rawLine' \in LastOfGroupLines
                \/ key \in DOMAIN state' /\ state'[key] = state[key]
      ]_vars

\* C23: right after the last sentence of a GPGSV group (of one sentence or
\* of several) was processed, the state holds the finished beaconInformation
\* and no _partialBeaconInformation.
C23_AccumulatorDroppedAtEnd ==
    (op = "lineReceived" /\ rawLine \in LastOfGroupLines /\ outcome = "ok") =>
        /\ "beaconInformation" \in DOMAIN state
        /\ "_partialBeaconInformation" \notin DOMAIN state

\* C24: a well-formed GPGSV sentence with a fix is processed without an
\* error, whatever came before it; the last sentence of a group of several
\* on a state without accumulator too.
C24_ValidGSVNeverFails ==
    (op = "lineReceived" /\ rawLine \in GSVLines) => outcome = "ok"

(***************************************************************************)
(* Claims about failed conversions, checked under SpecFailing              *)
(***************************************************************************)
LinesThatFail ==
    MisconfiguredLines
        \cup {CompositeSentences.RMC_BadDirection, CompositeSentences.GSA_BadVDOP}

\* C25: when a sentence with a fix raises an error during the conversion of
\* a field, the state, the attributes of its Heading and PositionError
\* included, holds exactly the values it held before the call.
C25_FailureLeavesStateAlone ==
    [][ (/\ op' = "lineReceived" /\ rawLine' \in LinesThatFail
         /\ outcome' \in {"ValueError", "KeyError"}) => state' = state
      ]_vars

(***************************************************************************)
(* Claims about abandoned GPGSV groups, checked under SpecSatellites       *)
(***************************************************************************)
\* C26: the beacon set delivered when a GPGSV group completes holds only
\* satellites contributed by the sentences of that group, none left over
\* from an earlier group that was abandoned before its last sentence.
C26_GroupIsolation ==
    \A group \in Groups : \A i \in 1..Len(log) :
        GroupAt(group, i) =>
            Identifiers(Delivered(log[i + Len(group) - 1]))
                \subseteq ContributedFrom(group, 1)

(***************************************************************************)
(* Claims about a sentence with a date and a time of day, checked under    *)
(* SpecStamped                                                             *)
(***************************************************************************)
\* Each stamped sentence with the combination of its own date and time
StampedCases ==
    {[line |-> StampedLine[t],
      time |-> [date |-> [year |-> 2000, month |-> 1, day |-> 1],
                time |-> [hour |-> t[1], minute |-> 0, second |-> t[2]]]] :
        t \in DOMAIN StampedLine}

\* C27: when a valid sentence has a datestamp and a timestamp, the `time`
\* folded into the state and passed to timeReceived is the combination of
\* that sentence's date and that sentence's time of day, midnight included,
\* whatever date or time the state held.
C27_OwnTimestampWins ==
    [][ \A case \in StampedCases :
            (op' = "lineReceived" /\ rawLine' = case.line)
                => TimeDelivered(case.time)
      ]_vars

=============================================================================
